---- MODULE Spec2Model ----
(***************************************************************************)
(* Model of the SkogAI/skills command-line utilities:                      *)
(*   agent-toolkit/scripts/validate_skogix_agent.py  (strict validator)    *)
(*   agent-toolkit/scripts/validate_agent.py         (lenient validator)   *)
(*   command-toolkit/scripts/validate_command.py     (command validator)   *)
(*   command-toolkit/scripts/create_command.py       (command creator)     *)
(*                                                                         *)
(* Text is a sequence of pieces.  A piece is a string standing for the     *)
(* characters it spells: a punctuation character ("#", "-", ":", " ",      *)
(* "\n"), or a run of word characters ("Process", "name", "x"); "[fence]" *)
(* stands for a Markdown code fence of three backticks.  Every            *)
(* literal the programs search for is spelled as a sequence of whole       *)
(* pieces, so a search of the text is a search of the piece sequence.      *)
(* File and command names are sequences of single characters.              *)
(***************************************************************************)
EXTENDS Integers, Sequences, FiniteSets, TLC

(***************************************************************************)
(* Bounds of the model                                                     *)
(***************************************************************************)
MaxNameLen == 4

(***************************************************************************)
(* Text primitives (Python str operations on piece sequences)              *)
(***************************************************************************)
NL == "\n"

\* str.isspace() of one piece
IsWs(t) == t \in {" ", NL}

\* text[i:i+len(pat)] == pat   (1-based i)
MatchAt(text, pat, i) ==
    /\ i >= 1
    /\ i + Len(pat) - 1 <= Len(text)
    /\ \A k \in 1..Len(pat) : text[i + k - 1] = pat[k]

\* pat in text
Contains(text, pat) == \E i \in 1..Len(text) : MatchAt(text, pat, i)

\* least and greatest element of a non-empty finite set of integers
SetMin(S) == CHOOSE x \in S : \A y \in S : x <= y
SetMax(S) == CHOOSE x \in S : \A y \in S : x >= y

\* text.count(pat): non-overlapping occurrences, scanning left to right;
\* found is where pat occurs at or after the scan position
RECURSIVE CountFrom(_, _, _)
RECURSIVE CountAmong(_, _, _)
CountAmong(text, pat, found) ==
    IF found = {} THEN 0 ELSE 1 + CountFrom(text, pat, SetMin(found) + Len(pat))

CountFrom(text, pat, i) == CountAmong(text, pat, {j \in i..Len(text) : MatchAt(text, pat, j)})

Count(text, pat) == CountFrom(text, pat, 1)

\* text[i:j] with Python's half-open, 0-based offsets given as 1-based first index
Slice(text, first, last) ==
    IF first > last THEN <<>> ELSE [k \in 1..(last - first + 1) |-> text[first + k - 1]]

\* text.strip()
NonWs(text) == {i \in 1..Len(text) : ~IsWs(text[i])}
StripTo(text, idx) == IF idx = {} THEN <<>> ELSE Slice(text, SetMin(idx), SetMax(idx))
Strip(text) == StripTo(text, NonWs(text))

\* text.split('\n'): the lines, as (first, last) index pairs; last = first - 1 for an empty line
LineStarts(text) == {1} \cup {i + 1 : i \in {j \in 1..Len(text) : text[j] = NL}}

\* the newline pieces of text[lo..hi]
NlIn(text, lo, hi) == {j \in lo..hi : text[j] = NL}

LineEndAt(text, nls) == IF nls = {} THEN Len(text) ELSE SetMin(nls) - 1
LineEnd(text, s) == LineEndAt(text, NlIn(text, s, Len(text)))

\* the n-th line (1-based, as enumerate(lines, 1) numbers them)
LineNo(text, s) == 1 + Cardinality({j \in 1..(s - 1) : text[j] = NL})

LineAt(text, s) == Slice(text, s, LineEnd(text, s))

\* number of characters a piece spells (len() of the text it stands for), for the
\* pieces of command documents; "prose" stands for a sentence of 60 characters
CharLen(t) ==
    CASE t = "$ARGUMENTS" -> 10
      [] t = "Process"    -> 7
      [] t = "Practices"  -> 9
      [] t = "practices"  -> 9
      [] t = "following"  -> 9
      [] t = "Following"  -> 9
      [] t = "Patterns"   -> 8
      [] t = "Adapt"      -> 5
      [] t = "I'LL"       -> 4
      [] t = "10"         -> 2
      [] t = "42"         -> 2
      [] t = "patterns"   -> 8
      [] t = "project"    -> 7
      [] t = "adapt"      -> 5
      [] t = "I'll"       -> 4
      [] t = "Task"       -> 4
      [] t = "Best"       -> 4
      [] t = "your"       -> 4
      [] t = "[fence]"    -> 3
      [] t = "to"         -> 2
      [] t = "prose"      -> 60
      [] OTHER            -> 1

\* the characters spelled by text[lo..hi]
RECURSIVE SpanLen(_, _, _)
SpanLen(text, lo, hi) ==
    IF lo > hi THEN 0
    ELSE IF lo = hi THEN CharLen(text[lo])
    ELSE SpanLen(text, lo, (lo + hi) \div 2) + SpanLen(text, (lo + hi) \div 2 + 1, hi)

TextLen(text) == SpanLen(text, 1, Len(text))

(***************************************************************************)
(* Findings: what errors.append / warnings.append / info.append record     *)
(***************************************************************************)
F(id) == [id |-> id, args |-> <<>>]
FA(id, args) == [id |-> id, args |-> args]

Ids(findings) == {findings[i].id : i \in 1..Len(findings)}

NumOf(findings, id) == Cardinality({i \in 1..Len(findings) : findings[i].id = id})

\* the elements of a finite set of integers in increasing order
RECURSIVE Ascending(_)
Ascending(S) == IF S = {} THEN <<>> ELSE <<SetMin(S)>> \o Ascending(S \ {SetMin(S)})

\* str.lower() of one piece
Lower(t) ==
    CASE t = "I'LL"       -> "i'll"
      [] t = "I'll"       -> "i'll"
      [] t = "Adapt"      -> "adapt"
      [] t = "Following"  -> "following"
      [] t = "Patterns"   -> "patterns"
      [] t = "Principles" -> "principles"
      [] t = "PRINCIPLES" -> "principles"
      [] t = "Hard"       -> "hard"
      [] t = "Popper"     -> "popper"
      [] t = "Falsif"     -> "falsif"
      [] t = "KISS"       -> "kiss"
      [] t = "Kiss"       -> "kiss"
      [] t = "Workflow"   -> "workflow"
      [] t = "WORKFLOW"   -> "workflow"
      [] t = "Method"     -> "method"
      [] t = "Steps"      -> "steps"
      [] t = "STEPS"      -> "steps"
      [] t = "Quality"    -> "quality"
      [] t = "QUALITY"    -> "quality"
      [] t = "Checklist"  -> "checklist"
      [] t = "Guidelines" -> "guidelines"
      [] t = "Y"          -> "y"
      [] t = "N"          -> "n"
      [] OTHER            -> t

\* text.lower()
LowerText(text) == [k \in 1..Len(text) |-> Lower(text[k])]

(***************************************************************************)
(* validate_command.py: CommandValidator                                   *)
(***************************************************************************)
NameLongLimit == 50
NameShortLimit == 3
ContentShortLimit == 100
ManyArgumentsLimit == 5
MinSteps == 3
MaxSteps == 10

\* character classes of file and command names
LowerAscii == {"a", "b", "c", "d", "m", "n", "o", "y"}
DigitChars == {"1"}

\* a piece matched by \d+
IsDigits(t) == t \in {"0", "1", "2", "3", "4", "5", "6", "7", "8", "9", "10", "42"}

NoFindings == [e |-> <<>>, w |-> <<>>, i |-> <<>>]

\* re.match(r'^[a-z0-9]+(-[a-z0-9]+)*', s) consuming exactly s[1..n]
KebabPrefix(s, n) ==
    /\ n >= 1
    /\ \A k \in 1..n : s[k] \in LowerAscii \cup DigitChars \cup {"-"}
    /\ s[1] # "-"
    /\ s[n] # "-"
    /\ \A k \in 1..(n - 1) : ~(s[k] = "-" /\ s[k + 1] = "-")

\* re.match(r'^[a-z0-9]+(-[a-z0-9]+)*$', name): `$` matches at the end of the
\* string and also just before a newline that ends the string
KebabMatch(name) ==
    \/ KebabPrefix(name, Len(name))
    \/ /\ Len(name) >= 1
       /\ name[Len(name)] = NL
       /\ KebabPrefix(name, Len(name) - 1)

_check_file_naming(name) ==
    [e |-> IF ~KebabMatch(name) THEN <<F("NotKebabCase")>> ELSE <<>>,
     w |-> (IF Len(name) > NameLongLimit THEN <<FA("NameTooLong", <<Len(name)>>)>> ELSE <<>>)
           \o (IF Len(name) < NameShortLimit THEN <<F("NameTooShort")>> ELSE <<>>),
     i |-> <<>>]

\* re.search(r'^# .+', content, re.MULTILINE)
HasTitle(content) ==
    \E s \in LineStarts(content) :
        /\ MatchAt(content, <<"#", " ">>, s)
        /\ s + 2 <= Len(content)
        /\ content[s + 2] # NL

_check_content_structure(content) ==
    IF Strip(content) = <<>> THEN [e |-> <<F("EmptyFile")>>, w |-> <<>>, i |-> <<>>]
    ELSE [e |-> IF ~HasTitle(content) THEN <<F("MissingTitle")>> ELSE <<>>,
          w |-> IF TextLen(content) < ContentShortLimit THEN <<F("ContentShort")>> ELSE <<>>,
          i |-> <<>>]

ARGUMENTS == <<"$ARGUMENTS">>

\* the findings when the warning is given from the limit itself on
ArgumentFindingsFromLimit(count) ==
    [e |-> <<>>,
     w |-> IF count >= ManyArgumentsLimit THEN <<FA("ManyArguments", <<count>>)>> ELSE <<>>,
     i |-> <<FA("FoundArguments", <<count>>)>>]

\* lines 104-110, count = content.count('$ARGUMENTS')
ArgumentFindings(count) ==
    [e |-> <<>>,
     w |-> IF count > ManyArgumentsLimit THEN <<FA("ManyArguments", <<count>>)>> ELSE <<>>,
     i |-> <<FA("FoundArguments", <<count>>)>>]

_check_arguments_placeholder(content) ==
    IF ~Contains(content, ARGUMENTS)
    THEN [e |-> <<F("MissingArguments")>>, w |-> <<>>, i |-> <<>>]
    ELSE ArgumentFindings(Count(content, ARGUMENTS))

TaskHeading == <<"#", "#", " ", "Task">>
ProcessHeading == <<"#", "#", " ", "Process">>

_check_required_sections(content) ==
    [e |-> (IF ~Contains(content, TaskHeading) THEN <<F("MissingTask")>> ELSE <<>>)
           \o (IF ~Contains(content, ProcessHeading) THEN <<F("MissingProcess")>> ELSE <<>>),
     w |-> <<>>,
     i |-> (IF Contains(content, TaskHeading) THEN <<F("FoundTask")>> ELSE <<>>)
           \o (IF Contains(content, ProcessHeading) THEN <<F("FoundProcess")>> ELSE <<>>)]

\* len(line) - len(line.lstrip('#')): the '#' characters the line starts with
RECURSIVE LeadingHashes(_)
LeadingHashes(line) ==
    IF line # <<>> /\ Head(line) = "#" THEN 1 + LeadingHashes(Tail(line)) ELSE 0

\* line.strip().startswith('#')
StartsWithHash(t) == t # <<>> /\ Head(t) = "#"
IsHeadingLine(line) == StartsWithHash(Strip(line))

\* the (level, line number) list built by the loop over enumerate(lines, 1)
HeadingsAt(content, starts) ==
    [k \in 1..Len(starts) |->
        [level |-> LeadingHashes(LineAt(content, starts[k])),
         line  |-> LineNo(content, starts[k])]]

Headings(content) ==
    HeadingsAt(content,
               Ascending({s \in LineStarts(content) : IsHeadingLine(LineAt(content, s))}))

\* the loop warning of every rise in level
RECURSIVE JumpWarningsAnyRise(_, _)
JumpWarningsAnyRise(headings, i) ==
    IF i > Len(headings) THEN <<>>
    ELSE (IF headings[i].level > headings[i - 1].level
          THEN <<FA("HeadingJump",
                    <<headings[i - 1].level, headings[i].level, headings[i].line>>)>>
          ELSE <<>>)
         \o JumpWarningsAnyRise(headings, i + 1)

\* the warnings appended by the loop `for i in range(1, len(headings))`
RECURSIVE JumpWarnings(_, _)
JumpWarnings(headings, i) ==
    IF i > Len(headings) THEN <<>>
    ELSE (IF headings[i].level > headings[i - 1].level + 1
          THEN <<FA("HeadingJump",
                    <<headings[i - 1].level, headings[i].level, headings[i].line>>)>>
          ELSE <<>>)
         \o JumpWarnings(headings, i + 1)

HeadingFindings(headings) ==
    IF headings = <<>> THEN [e |-> <<F("NoHeadings")>>, w |-> <<>>, i |-> <<>>]
    ELSE [e |-> <<>>,
          w |-> (IF headings[1].level # 1
                 THEN <<FA("FirstHeadingNotH1", <<headings[1].level>>)>> ELSE <<>>)
                \o JumpWarnings(headings, 2),
          i |-> <<FA("FoundHeadings", <<Len(headings)>>)>>]

_check_heading_structure(content) == HeadingFindings(Headings(content))

\* the end of the maximal run of whitespace pieces starting at p (p - 1 when there is none)
RECURSIVE WsRunEnd(_, _)
WsRunEnd(text, p) ==
    IF p <= Len(text) /\ IsWs(text[p]) THEN WsRunEnd(text, p + 1) ELSE p - 1

\* the last element of S, 0 when S is empty
MaxOrZero(S) == IF S = {} THEN 0 ELSE SetMax(S)

\* `## Process\s*\n` matched at i: the index of the newline that `\n` consumes
\* (greedy \s* gives back up to the last newline of the whitespace run), 0 if no match
ProcessHeaderEnd(content, i) ==
    IF ~MatchAt(content, ProcessHeading, i) THEN 0
    ELSE MaxOrZero(NlIn(content, i + Len(ProcessHeading),
                        WsRunEnd(content, i + Len(ProcessHeading))))

SectionStop == <<NL, "#", "#">>

\* the lazy group (.*?) starting at first ends before the first `\n##`, or at the end
GroupEnd(content, stops) == IF stops = {} THEN Len(content) ELSE SetMin(stops) - 1

GroupFrom(content, first) ==
    [found |-> TRUE,
     text  |-> Slice(content, first,
                     GroupEnd(content, {q \in first..Len(content) :
                                           MatchAt(content, SectionStop, q)}))]

ProcessMatchAmong(content, cands) ==
    IF cands = {} THEN [found |-> FALSE, text |-> <<>>]
    ELSE GroupFrom(content, ProcessHeaderEnd(content, SetMin(cands)) + 1)

\* re.search(r'## Process\s*\n(.*?)(?=\n##|\Z)', content, re.DOTALL):
\* [found, text of group 1]
ProcessMatch(content) ==
    ProcessMatchAmong(content, {i \in 1..Len(content) : ProcessHeaderEnd(content, i) > 0})

\* r'^\d+\.\s+.+' tried at p: the index of the last piece matched, 0 if no match
RECURSIVE DigitsEnd(_, _)
DigitsEnd(text, p) ==
    IF p <= Len(text) /\ IsDigits(text[p]) THEN DigitsEnd(text, p + 1) ELSE p - 1

\* \s+ takes the pieces up to j; .+ then needs a non-newline piece at j + 1
StepCuts(text, d) ==
    {j \in (d + 2)..WsRunEnd(text, d + 2) : j + 1 <= Len(text) /\ text[j + 1] # NL}

StepEndAt(text, cuts) == IF cuts = {} THEN 0 ELSE LineEnd(text, SetMax(cuts) + 1)

StepAfterDigits(text, p, d) ==
    IF d < p \/ d + 1 > Len(text) \/ text[d + 1] # "." THEN 0
    ELSE StepEndAt(text, StepCuts(text, d))

StepMatchEnd(text, p) == StepAfterDigits(text, p, DigitsEnd(text, p))

\* len(re.findall(r'^\d+\.\s+.+', text, re.MULTILINE)), scanning from p;
\* stop is where the match tried at p ends (0: no match at p)
RECURSIVE CountSteps(_, _)
RECURSIVE CountStepsAt(_, _, _)
CountStepsAt(text, p, stop) ==
    IF stop > 0 THEN 1 + CountSteps(text, stop + 1) ELSE CountSteps(text, p + 1)

CountSteps(text, p) ==
    IF p > Len(text) THEN 0
    ELSE CountStepsAt(text, p, IF p \in LineStarts(text) THEN StepMatchEnd(text, p) ELSE 0)

\* a classification that wants at least ten steps
StepFindingsWantingTen(step_count) ==
    IF step_count = 0
    THEN [e |-> <<>>, w |-> <<F("NoNumberedSteps")>>, i |-> <<>>]
    ELSE IF step_count < MaxSteps
    THEN [e |-> <<>>, w |-> <<FA("TooFewSteps", <<step_count>>)>>, i |-> <<>>]
    ELSE [e |-> <<>>, w |-> <<>>, i |-> <<FA("StepsOk", <<step_count>>)>>]

\* lines 171-187
StepFindings(step_count) ==
    IF step_count = 0
    THEN [e |-> <<>>, w |-> <<F("NoNumberedSteps")>>, i |-> <<>>]
    ELSE IF step_count < MinSteps
    THEN [e |-> <<>>, w |-> <<FA("TooFewSteps", <<step_count>>)>>, i |-> <<>>]
    ELSE IF step_count > MaxSteps
    THEN [e |-> <<>>, w |-> <<FA("TooManySteps", <<step_count>>)>>, i |-> <<>>]
    ELSE [e |-> <<>>, w |-> <<>>, i |-> <<FA("StepsOk", <<step_count>>)>>]

ProcessFindings(process_match) ==
    IF ~process_match.found THEN NoFindings
    ELSE StepFindings(CountSteps(process_match.text, 1))

_check_process_steps(content) == ProcessFindings(ProcessMatch(content))

\* re.search(r"following.*(project|your).*patterns", content, re.IGNORECASE)
FollowingPatterns(low) ==
    \E a \in 1..Len(low) : \E b \in (a + 1)..Len(low) : \E c \in (b + 1)..Len(low) :
        /\ low[a] = "following"
        /\ low[b] \in {"project", "your"}
        /\ low[c] = "patterns"
        /\ \A k \in a..c : low[k] # NL

\* lines 192-194
HasBestPractices(content) ==
    \/ Contains(content, <<"#", "#", " ", "Best", " ", "Practices">>)
    \/ Contains(content, <<"#", "#", " ", "Best", " ", "practices">>)

\* lines 202-207, on content.lower()
HasAdaptation(low) ==
    \/ Contains(low, <<"i'll", " ", "adapt">>)
    \/ Contains(low, <<"adapt", " ", "to", " ", "your">>)
    \/ FollowingPatterns(low)

BestPracticeFindings(has_bp, has_adaptation, code_blocks) ==
    [e |-> <<>>,
     w |-> (IF has_bp THEN <<>> ELSE <<F("NoBestPractices")>>)
           \o (IF has_adaptation THEN <<>> ELSE <<F("NoAdaptation")>>),
     i |-> (IF has_bp THEN <<F("HasBestPractices")>> ELSE <<>>)
           \o (IF has_adaptation THEN <<F("HasAdaptation")>> ELSE <<>>)
           \o (IF code_blocks > 0 THEN <<FA("CodeBlocks", <<code_blocks \div 2>>)>> ELSE <<>>)]

_check_best_practices(content) ==
    BestPracticeFindings(HasBestPractices(content), HasAdaptation(LowerText(content)),
                         Count(content, <<"[fence]">>))

\* findings of several checks, in the order the checks run
RECURSIVE Gather(_)
Merge(first, rest) ==
    [e |-> first.e \o rest.e, w |-> first.w \o rest.w, i |-> first.i \o rest.i]

Gather(checks) ==
    IF checks = <<>> THEN NoFindings ELSE Merge(Head(checks), Gather(Tail(checks)))

\* a verdict that forgives a single error
VerdictForgiving(errors) == IF Len(errors) <= 1 THEN "pass" ELSE "fail"

Verdict(errors) == IF Len(errors) = 0 THEN "pass" ELSE "fail"

\* main(): validate() returned is_valid, then print_results() prints every list
Report(is_valid, r) ==
    [verdict |-> IF is_valid THEN "pass" ELSE "fail", e |-> r.e, w |-> r.w, i |-> r.i,
     shown |-> r.e]

\* line 59: return len(self.errors) == 0
Checked(r) == Report(Verdict(r.e) = "pass", r)

\* lines 51-57: the seven checks, in the order validate() calls them
CommandChecks(file) ==
    <<_check_file_naming(file.stem),
      _check_content_structure(file.content),
      _check_arguments_placeholder(file.content),
      _check_required_sections(file.content),
      _check_heading_structure(file.content),
      _check_process_steps(file.content),
      _check_best_practices(file.content)>>

\* CommandValidator.validate() and print_results(): file is [state, stem, suffix, content]
CommandValidate(file) ==
    IF file.state = "missing"
    THEN Report(FALSE, [e |-> <<F("FileMissing")>>, w |-> <<>>, i |-> <<>>])
    ELSE IF file.suffix # ".md"
    THEN Report(FALSE, [e |-> <<F("BadExtension")>>, w |-> <<>>, i |-> <<>>])
    ELSE IF file.state = "unreadable"
    THEN Report(FALSE, [e |-> <<F("ReadFailed")>>, w |-> <<>>, i |-> <<>>])
    ELSE Checked(Gather(CommandChecks(file)))

(***************************************************************************)
(* yaml.safe_load on a frontmatter block.  Modelled for blocks whose lines  *)
(* start at column 0 and are blank, `key: value` / `key:` entries with a   *)
(* plain scalar value, `- item` entries or plain scalars.                   *)
(***************************************************************************)
Punct == {"#", "-", ":", "*", "**", ".", ",", "[", "]", "{", "}", "$ARGUMENTS", "[fence]"}

\* a piece made of \w characters only
IsWord(t) == t \notin Punct /\ ~IsWs(t)

\* a `:` that YAML reads as a mapping indicator: followed by a space or ending the line
HasIndicator(line, from) ==
    \E k \in from..Len(line) : line[k] = ":" /\ (k = Len(line) \/ line[k + 1] = " ")

LineKind(line) ==
    IF Strip(line) = <<>> THEN "blank"
    ELSE IF line[1] = "[" THEN "invalid"                  \* an unclosed flow sequence
    ELSE IF line[1] = "-" /\ (Len(line) = 1 \/ line[2] = " ")
         THEN IF HasIndicator(line, 2) THEN "unmodelled" ELSE "item"
    ELSE IF IsWord(line[1]) /\ Len(line) >= 2 /\ line[2] = ":"
            /\ (Len(line) = 2 \/ line[3] = " ")
         THEN IF HasIndicator(line, 3) THEN "invalid"      \* mapping values are not allowed here
              ELSE "entry"
    ELSE IF IsWord(line[1]) /\ ~HasIndicator(line, 1) THEN "scalar"
    ELSE "unmodelled"

\* a plain scalar resolved by the YAML core schema: null, int or str
ScalarOf(t) ==
    IF t = <<>> THEN [t |-> "null", v |-> <<>>]
    ELSE IF Len(t) = 1 /\ IsDigits(t[1]) THEN [t |-> "int", v |-> t]
    ELSE [t |-> "str", v |-> t]

Scalar(pieces) == ScalarOf(Strip(pieces))

LinesAt(fm, starts) == [k \in 1..Len(starts) |-> LineAt(fm, starts[k])]
FmLines(fm) == LinesAt(fm, Ascending(LineStarts(fm)))

\* the lines of a plain multi-line scalar folded into one line
RECURSIVE Fold(_)
Fold(lines) ==
    IF lines = <<>> THEN <<>>
    ELSE IF Len(lines) = 1 THEN Strip(lines[1])
    ELSE Strip(lines[1]) \o <<" ">> \o Fold(Tail(lines))

NotBlank(line) == LineKind(line) # "blank"

\* the last line whose key is `key`
LastOf(lines, key) == SetMax({k \in 1..Len(lines) : lines[k][1] = key})

ValueOf(line) == Scalar(Slice(line, 3, Len(line)))

\* a block mapping; a repeated key keeps its last value
Mapping(lines) ==
    [kind |-> "map",
     map  |-> [key \in {lines[k][1] : k \in 1..Len(lines)} |->
                  ValueOf(lines[LastOf(lines, key)])]]

PlainDocument(v) ==
    IF v.t = "int" THEN [kind |-> "int", v |-> v.v] ELSE [kind |-> "str", v |-> v.v]

\* lines are the lines that are not blank, kinds the kinds of line among them
Compose(lines, kinds) ==
    CASE lines = <<>> ->
           [kind |-> "none"]
      [] lines # <<>> /\ "unmodelled" \notin kinds /\ "invalid" \in kinds ->
           [kind |-> "error"]
      [] kinds = {"entry"} ->
           Mapping(lines)
      [] kinds = {"item"} ->
           [kind |-> "list",
            items |-> [k \in 1..Len(lines) |-> Scalar(Slice(lines[k], 2, Len(lines[k])))]]
      [] kinds = {"scalar"} ->
           PlainDocument(Scalar(Fold(lines)))
      [] kinds = {"entry", "scalar"} ->
           \* a scalar line before an entry: "mapping values are not allowed here";
           \* after one: "could not find expected ':'"
           [kind |-> "error"]

KindsOf(lines) == {LineKind(lines[k]) : k \in 1..Len(lines)}

Load(lines) == Compose(lines, KindsOf(lines))

\* yaml.safe_load(fm)
YamlLoad(fm) == Load(SelectSeq(FmLines(fm), NotBlank))

(***************************************************************************)
(* validate_skogix_agent.py: validate_agent                                *)
(***************************************************************************)
Dashes == <<"-", "-", "-">>

\* re.match(r'^---\n(.*?)\n---\n(.*)$', content, re.DOTALL): [found, fm, body]
SplitAt(content, q) ==
    [found |-> TRUE, fm |-> Slice(content, 5, q - 1), body |-> Slice(content, q + 5, Len(content))]

StrictSplit(content, closes) ==
    IF ~MatchAt(content, Dashes \o <<NL>>, 1) \/ closes = {}
    THEN [found |-> FALSE, fm |-> <<>>, body |-> <<>>]
    ELSE SplitAt(content, SetMin(closes))

StrictFrontmatter(content) ==
    StrictSplit(content,
                {q \in 5..Len(content) : MatchAt(content, <<NL>> \o Dashes \o <<NL>>, q)})

\* `key in frontmatter` for what safe_load returned: "yes", "no" or "crash" (TypeError)
KeyIn(y, key) ==
    CASE y.kind = "map"  -> IF key \in DOMAIN y.map THEN "yes" ELSE "no"
      [] y.kind = "str"  -> IF Contains(y.v, <<key>>) THEN "yes" ELSE "no"
      [] y.kind = "list" -> IF \E k \in 1..Len(y.items) : y.items[k] = [t |-> "str", v |-> <<key>>]
                            THEN "yes" ELSE "no"
      [] OTHER           -> "crash"                        \* None, int: not iterable

\* `frontmatter[key]` once `key in frontmatter` held: a str or a list cannot be indexed by a str
CanIndex(y) == y.kind = "map"

\* bool(value) of a scalar
Truthy(v) == v.t = "str" \/ (v.t = "int" /\ v.v # <<"0">>)

\* lines 54-62: one required field; st is [st, e, w]
RequiredFound(st, y, key, found, missingId, typeId) ==
    CASE found = "crash" -> [st EXCEPT !.st = "crash"]
      [] found = "no"    -> [st EXCEPT !.e = @ \o <<F(missingId)>>]
      [] found = "yes"   ->
           IF ~CanIndex(y) THEN [st EXCEPT !.st = "crash"]
           ELSE IF y.map[key].t # "str"
           THEN [st EXCEPT !.e = @ \o <<F(typeId)>>]
           ELSE st

CheckRequired(st, y, key, missingId, typeId) ==
    IF st.st # "run" THEN st
    ELSE RequiredFound(st, y, key, KeyIn(y, key), missingId, typeId)

valid_colors == {"blue", "cyan", "green", "yellow", "orange", "red"}

\* lines 64-69
ColorFound(st, y, found) ==
    CASE found = "crash" -> [st EXCEPT !.st = "crash"]
      [] found = "no"    -> [st EXCEPT !.w = @ \o <<F("MissingColor")>>]
      [] found = "yes"   ->
           IF ~CanIndex(y) THEN [st EXCEPT !.st = "crash"]
           ELSE IF ~(y.map["color"].t = "str" /\ Len(y.map["color"].v) = 1
                     /\ y.map["color"].v[1] \in valid_colors)
           THEN [st EXCEPT !.w = @ \o <<F("ColorNotRecommended")>>]
           ELSE st

CheckColor(st, y) == IF st.st # "run" THEN st ELSE ColorFound(st, y, KeyIn(y, "color"))

\* re.search(r'You are the \*\*[\w\s-]+\*\*', body)
HasIdentity(body) ==
    \E i \in 1..Len(body) :
        /\ MatchAt(body, <<"You", " ", "are", " ", "the", " ", "**">>, i)
        /\ \E j \in (i + 8)..Len(body) :
              /\ body[j] = "**"
              /\ \A k \in (i + 7)..(j - 1) : IsWord(body[k]) \/ IsWs(body[k]) \/ body[k] = "-"

AnyIn(text, words) == \E w \in words : Contains(text, <<w>>)

\* lines 73-107: the body checks; none can raise
BodyFindings(body, low) ==
        (IF ~HasIdentity(body) THEN <<F("MissingIdentity")>> ELSE <<>>)
        \o (IF ~Contains(body, <<"Principles">>) /\ ~Contains(low, <<"principles">>)
            THEN <<F("MissingPrinciples")>> ELSE <<>>)
        \o (IF ~Contains(low, <<"hard", "-", "to", "-", "vary">>)
            THEN <<F("MissingHardToVary")>> ELSE <<>>)
        \o (IF ~Contains(low, <<"popper">>) /\ ~Contains(low, <<"falsif">>)
            THEN <<F("MissingPopper")>> ELSE <<>>)
        \o (IF ~Contains(low, <<"kiss">>) THEN <<F("MissingKiss")>> ELSE <<>>)
        \o (IF ~AnyIn(body, {"Workflow", "workflow", "Method", "method", "Steps", "steps"})
            THEN <<F("MissingWorkflow")>> ELSE <<>>)
        \o (IF ~Contains(body, <<"**", "Input">>) /\ ~Contains(body, <<"Input", ":">>)
            THEN <<F("MissingInput")>> ELSE <<>>)
        \o (IF ~Contains(body, <<"**", "Output">>) /\ ~Contains(body, <<"Output", ":">>)
               /\ ~Contains(body, <<"Deliverable">>)
            THEN <<F("MissingOutput")>> ELSE <<>>)
        \o (IF ~AnyIn(body, {"Quality", "quality", "Checklist", "checklist",
                             "Guidelines", "guidelines"})
            THEN <<F("MissingQuality")>> ELSE <<>>)
        \o (IF ~Contains(body, <<"If">>) \/ ~Contains(body, <<"rather", " ", "than">>)
            THEN <<F("MissingUncertainty")>> ELSE <<>>)

BodyWarnings(body) == BodyFindings(body, LowerText(body))

CheckBody(st, body) ==
    IF st.st # "run" THEN st ELSE [st EXCEPT !.w = @ \o BodyWarnings(body)]

\* lines 114-119: frontmatter.get(...) needs a mapping (AttributeError otherwise), and
\* frontmatter['description'][:60] needs a value that can be sliced (TypeError otherwise)
PrintHeader(st, y) ==
    IF st.st # "run" THEN st
    ELSE IF y.kind # "map" THEN [st EXCEPT !.st = "crash"]
    ELSE IF "description" \in DOMAIN y.map /\ Truthy(y.map["description"])
            /\ y.map["description"].t # "str"
    THEN [st EXCEPT !.st = "crash"]
    ELSE st

NoTop == <<>>

\* lines 123-140: the report and the verdict
StrictReport(st) ==
    [verdict |-> IF st.st = "crash" THEN "crash" ELSE Verdict(st.e),
     top |-> NoTop, e |-> st.e, w |-> st.w,
     shown |-> IF st.st = "crash" THEN <<>> ELSE st.e]

Started == [st |-> "run", e |-> <<>>, w |-> <<>>]

\* lines 53-140, y = yaml.safe_load(frontmatter_text)
StrictChecks(y, body) ==
    IF y.kind = "error"
    THEN \* lines 49-51: appended to errors, and returned before anything is printed
         [verdict |-> "fail", top |-> NoTop, e |-> <<F("InvalidYaml")>>, w |-> <<>>,
          shown |-> <<>>]
    ELSE StrictReport(
           PrintHeader(
             CheckBody(
               CheckColor(
                 CheckRequired(
                   CheckRequired(Started, y, "name", "MissingName", "NameNotString"),
                   y, "description", "MissingDescription", "DescriptionNotString"),
                 y),
               body),
             y))

StrictMatched(m) ==
    IF ~m.found
    THEN \* lines 41-43: appended to errors, and returned before anything is printed
         [verdict |-> "fail", top |-> NoTop, e |-> <<F("MissingFrontmatter")>>, w |-> <<>>,
          shown |-> <<>>]
    ELSE StrictChecks(YamlLoad(m.fm), m.body)

\* validate_agent(file_path) of validate_skogix_agent.py
SkogixValidate(file) ==
    IF file.state = "missing"
    THEN [verdict |-> "fail", top |-> <<F("NotFound")>>, e |-> <<>>, w |-> <<>>,
          shown |-> <<F("NotFound")>>]
    ELSE StrictMatched(StrictFrontmatter(file.content))

(***************************************************************************)
(* validate_agent.py: validate_agent (the line-scanning validator)         *)
(***************************************************************************)
\* `\n---\s*\n` matched at q: the index of the final newline consumed, 0 if no match
CloseEnd(content, q) ==
    IF ~MatchAt(content, <<NL>> \o Dashes, q) THEN 0
    ELSE MaxOrZero(NlIn(content, q + 4, WsRunEnd(content, q + 4)))

\* where `\n---\s*\n` matches at or after position from
ClosesFrom(content, from) == {q \in from..Len(content) : CloseEnd(content, q) > 0}

\* the newlines of the whitespace run after the opening `---` after which the rest matches
Heads(content) ==
    {h \in 4..WsRunEnd(content, 4) : content[h] = NL /\ ClosesFrom(content, h + 1) # {}}

LenientGroup(content, h) ==
    [found |-> TRUE, fm |-> Slice(content, h + 1, SetMin(ClosesFrom(content, h + 1)) - 1)]

LenientSplit(content, heads) ==
    IF ~MatchAt(content, Dashes, 1) \/ heads = {}
    THEN [found |-> FALSE, fm |-> <<>>]
    ELSE LenientGroup(content, SetMax(heads))

\* re.match(r'^---\s*\n(.*?)\n---\s*\n', content, re.DOTALL): [found, fm];
\* greedy \s* keeps the longest whitespace run after which the rest still matches
LenientFrontmatter(content) == LenientSplit(content, Heads(content))

\* \s* takes the pieces up to j; (.+) then needs a non-newline piece at j + 1
FieldCuts(text, i) ==
    {j \in (i + 1)..WsRunEnd(text, i + 2) : j + 1 <= Len(text) /\ text[j + 1] # NL}

FieldEndAt(text, cuts) == IF cuts = {} THEN 0 ELSE LineEnd(text, SetMax(cuts) + 1)

\* `key:\s*(.+)` tried at i: the index of the last piece matched, 0 if no match
FieldMatchEnd(text, key, i) ==
    IF ~MatchAt(text, <<key, ":">>, i) THEN 0 ELSE FieldEndAt(text, FieldCuts(text, i))

FieldAmong(text, key, cands) ==
    IF cands = {} THEN [found |-> FALSE, end |-> 0]
    ELSE [found |-> TRUE, end |-> FieldMatchEnd(text, key, SetMin(cands))]

\* re.search(key + r':\s*(.+)', text): [found, end], end as match.end()
FieldSearch(text, key) ==
    FieldAmong(text, key, {i \in 1..Len(text) : FieldMatchEnd(text, key, i) > 0})

valid_models == {"sonnet", "opus", "haiku", "inherit"}

\* the piece after `model:\s*` tried at i
ModelValueAt(text, i) == WsRunEnd(text, i + 2) + 1

ModelAmong(text, cands) ==
    IF cands = {} THEN [found |-> FALSE, value |-> ""]
    ELSE [found |-> TRUE, value |-> text[ModelValueAt(text, SetMin(cands))]]

\* re.search(r'model:\s*(sonnet|opus|haiku|inherit)', text): [found, value]
ModelSearch(text) ==
    ModelAmong(text, {i \in 1..Len(text) :
                         /\ MatchAt(text, <<"model", ":">>, i)
                         /\ ModelValueAt(text, i) <= Len(text)
                         /\ text[ModelValueAt(text, i)] \in valid_models})

\* lines 44-46
RequiredFields(frontmatter) ==
    (IF ~FieldSearch(frontmatter, "name").found THEN <<F("MissingName")>> ELSE <<>>)
    \o (IF ~FieldSearch(frontmatter, "description").found
        THEN <<F("MissingDescription")>> ELSE <<>>)

\* lines 62-65
ModelWarnings(model) ==
    IF model.found /\ model.value \notin valid_models THEN <<F("UnknownModel")>> ELSE <<>>

\* lines 68-70: content[match.end():].strip() is empty
ContentAfter(content, match) ==
    IF Strip(Slice(content, match.end + 1, Len(content))) = <<>>
    THEN <<F("NoContent")>> ELSE <<>>

LenientReport(errors, warnings) ==
    [verdict |-> Verdict(errors), top |-> NoTop, e |-> errors, w |-> warnings,
     shown |-> errors]

\* lines 41-96.  The loop over optional_fields rebinds `match`; after it `match` is the
\* result of the last search, for `color`: None makes match.end() raise AttributeError
LenientChecks(content, frontmatter, match) ==
    IF ~match.found
    THEN [verdict |-> "crash", top |-> NoTop, e |-> RequiredFields(frontmatter),
          w |-> ModelWarnings(ModelSearch(frontmatter)), shown |-> <<>>]
    ELSE LenientReport(RequiredFields(frontmatter) \o ContentAfter(content, match),
                       ModelWarnings(ModelSearch(frontmatter)))

LenientMatched(content, m) ==
    IF ~m.found
    THEN [verdict |-> "fail", top |-> <<F("NoFrontmatter")>>, e |-> <<>>, w |-> <<>>,
          shown |-> <<F("NoFrontmatter")>>]
    ELSE LenientChecks(content, m.fm, FieldSearch(m.fm, "color"))

\* validate_agent(agent_path) of validate_agent.py
LenientValidate(file) ==
    IF file.state = "missing"
    THEN [verdict |-> "fail", top |-> <<F("NotFound")>>, e |-> <<>>, w |-> <<>>,
          shown |-> <<F("NotFound")>>]
    ELSE LenientMatched(file.content, LenientFrontmatter(file.content))

(***************************************************************************)
(* create_command.py                                                       *)
(***************************************************************************)
Placeholders == {"{title}", "{description}", "{target}", "{concerns}", "{action}",
                 "{action_type}", "{workflow_task}"}

\* the field a replacement field names
FieldOf(t) ==
    CASE t = "{title}"         -> "title"
      [] t = "{description}"   -> "description"
      [] t = "{target}"        -> "target"
      [] t = "{concerns}"      -> "concerns"
      [] t = "{action}"        -> "action"
      [] t = "{action_type}"   -> "action_type"
      [] t = "{workflow_task}" -> "workflow_task"

H2(words) == <<"#", "#", " ">> \o words \o <<NL, NL>>
H3(words) == <<"#", "#", "#", " ">> \o words \o <<NL, NL>>
Para == <<"prose", NL, NL>>
Step(n, words) == <<n, ".", " ">> \o words \o <<NL>>

\* the part every template starts with: title, description, Task heading
TemplateHead == <<"#", " ", "{title}", NL, NL, "{description}", NL, NL>> \o H2(<<"Task">>)

ProcessIntro == H2(<<"Process">>) \o <<"I'll", " ", "x", ":", NL, NL>>

\* COMMAND_TEMPLATES: headings, replacement fields, $ARGUMENTS, numbered steps and the
\* closing sentence as written; other prose is the piece "prose" or "x"
COMMAND_TEMPLATES ==
    [generation |->
        TemplateHead
        \o <<"I'll", " ", "x", " ", "the", " ", "project", " ", "x", " ", "{target}", " ",
             "for", " ", "$ARGUMENTS", " ", "following", " ", "project", " ", "x", ".", NL, NL>>
        \o ProcessIntro
        \o Step("1", <<"x", " ", "patterns">>) \o Step("2", <<"x", " ", "{target}">>)
        \o Step("3", <<"x", " ", "{target}", " ", "x">>) \o Step("4", <<"x">>)
        \o Step("5", <<"x">>) \o Step("6", <<"x">>) \o <<NL>>
        \o H2(<<"x">>) \o H3(<<"x">>) \o Para \o H3(<<"x">>) \o Para \o H3(<<"x">>) \o Para
        \o H2(<<"x">>) \o <<"I'll", " ", "x", " ", "{target}", ":", NL, NL>> \o Para
        \o H2(<<"Best", " ", "Practices">>) \o H3(<<"x">>) \o Para \o H3(<<"x">>) \o Para
        \o <<"I'll", " ", "adapt", " ", "to", " ", "your", " ", "x", " ", "patterns", ".", NL>>,
     analysis |->
        TemplateHead
        \o <<"I'll", " ", "x", " ", "$ARGUMENTS", " ", "for", " ", "{concerns}", " ", "x", ".", NL, NL>>
        \o ProcessIntro
        \o Step("1", <<"x">>) \o Step("2", <<"x">>) \o Step("3", <<"x", " ", "patterns", " ", "x">>)
        \o Step("4", <<"x">>) \o Step("5", <<"x">>) \o Step("6", <<"x">>) \o <<NL>>
        \o H2(<<"x">>) \o H3(<<"x">>) \o Para \o H3(<<"x">>) \o Para \o H3(<<"Best", " ", "x">>) \o Para
        \o H2(<<"x">>) \o H3(<<"x">>) \o Para \o H3(<<"x">>) \o Para
        \o H2(<<"Best", " ", "Practices">>) \o H3(<<"x">>) \o Para \o H3(<<"x">>) \o Para
        \o <<"I'll", " ", "adapt", " ", "the", " ", "x", " ", "to", " ", "your", " ", "x", ".", NL>>,
     build |->
        TemplateHead
        \o <<"I'll", " ", "{action}", " ", "for", " ", "$ARGUMENTS", " ", "following", " ", "x", ".", NL, NL>>
        \o ProcessIntro
        \o Step("1", <<"x">>) \o Step("2", <<"x">>) \o Step("3", <<"x", " ", "{action_type}", " ", "x">>)
        \o Step("4", <<"x">>) \o Step("5", <<"x">>) \o Step("6", <<"x">>) \o <<NL>>
        \o H2(<<"x">>) \o H3(<<"x">>) \o Para \o H3(<<"x">>) \o Para \o H3(<<"x">>) \o Para
        \o H2(<<"x">>) \o H3(<<"x">>) \o Para \o H3(<<"x">>) \o Para
        \o H2(<<"Best", " ", "Practices">>) \o H3(<<"x">>) \o Para \o H3(<<"x">>) \o Para \o H3(<<"x">>) \o Para
        \o <<"I'll", " ", "adapt", " ", "to", " ", "your", " ", "x", ".", NL>>,
     workflow |->
        TemplateHead
        \o <<"I'll", " ", "x", " ", "{workflow_task}", " ", "for", " ", "$ARGUMENTS", " ",
             "following", " ", "project", " ", "x", " ", "patterns", " ", "x", ".", NL, NL>>
        \o ProcessIntro
        \o Step("1", <<"x">>) \o Step("2", <<"x">>) \o Step("3", <<"x">>)
        \o Step("4", <<"x">>) \o Step("5", <<"x">>) \o Step("6", <<"x">>) \o <<NL>>
        \o H2(<<"x">>) \o H3(<<"x">>) \o Para \o H3(<<"x">>) \o Para \o H3(<<"x">>) \o Para
        \o H2(<<"x">>) \o H3(<<"x">>) \o Para \o H3(<<"x">>) \o Para \o H3(<<"x">>) \o Para
        \o H2(<<"Best", " ", "Practices">>) \o H3(<<"x">>) \o Para \o H3(<<"x">>) \o Para \o H3(<<"x">>) \o Para
        \o <<"I'll", " ", "adapt", " ", "to", " ", "your", " ", "x", ".", NL>>]

\* template.format(**template_vars): [ok, text]; a replacement field whose name is not
\* a key of template_vars raises KeyError; substituted text is not scanned again
RECURSIVE Substitute(_, _)
Substitute(template, template_vars) ==
    IF template = <<>> THEN <<>>
    ELSE IF Len(template) = 1
    THEN (IF template[1] \in Placeholders THEN template_vars[FieldOf(template[1])]
          ELSE template)
    ELSE Substitute(SubSeq(template, 1, Len(template) \div 2), template_vars)
         \o Substitute(SubSeq(template, Len(template) \div 2 + 1, Len(template)),
                       template_vars)

\* a fill that leaves the fields it has no value for as they are
FormatPartial(template, template_vars) ==
    [ok   |-> TRUE,
     text |-> Substitute(template,
                         [k \in {FieldOf(ph) : ph \in Placeholders} |->
                             IF k \in DOMAIN template_vars THEN template_vars[k]
                             ELSE <<CHOOSE ph \in Placeholders : FieldOf(ph) = k>>])]

Format(template, template_vars) ==
    IF \E k \in 1..Len(template) :
          template[k] \in Placeholders /\ FieldOf(template[k]) \notin DOMAIN template_vars
    THEN [ok |-> FALSE, text |-> <<>>]
    ELSE [ok |-> TRUE, text |-> Substitute(template, template_vars)]

\* str.capitalize() of a word of a command name
Upper(c) ==
    CASE c = "a" -> "A" [] c = "b" -> "B" [] c = "c" -> "C" [] c = "d" -> "D"
      [] c = "m" -> "M" [] c = "n" -> "N" [] c = "o" -> "O" [] c = "y" -> "Y"
      [] OTHER -> c

LowerChar(c) ==
    CASE c = "A" -> "a" [] c = "M" -> "m" [] c = "C" -> "c" [] c = "Y" -> "y"
      [] OTHER -> c

\* ' '.join(word.capitalize() for word in command_name.split('-'))
title_case_command_name(name) ==
    [k \in 1..Len(name) |->
        IF name[k] = "-" THEN " "
        ELSE IF k = 1 \/ name[k - 1] = "-" THEN Upper(name[k])
        ELSE LowerChar(name[k])]

\* get_user_input(prompt, default): response is the line typed (stripped); when there is
\* no default the prompt repeats until a non-empty line, `again`, is typed
get_user_input(response, default, again) ==
    IF default # <<>> THEN (IF response # <<>> THEN response ELSE default)
    ELSE (IF response # <<>> THEN response ELSE again)

category_map(category) ==
    CASE category = <<"1">> -> "generation"
      [] category = <<"2">> -> "analysis"
      [] category = <<"3">> -> "build"
      [] category = <<"4">> -> "workflow"
      [] OTHER              -> "generation"

\* lines 447-465: the mapping gathered for the chosen category
CategoryVars(category_name, ans) ==
    CASE category_name = "generation" -> [k \in {"target"} |-> ans.field1]
      [] category_name = "analysis"   -> [k \in {"concerns"} |-> ans.field1]
      [] category_name = "build"      ->
            [k \in {"action", "action_type"} |->
                IF k = "action" THEN ans.field1 ELSE ans.field2]
      [] category_name = "workflow"   -> [k \in {"workflow_task"} |-> ans.field1]

\* dict.update: the entries of more added to base
Update(base, more) ==
    [k \in DOMAIN base \cup DOMAIN more |-> IF k \in DOMAIN more THEN more[k] ELSE base[k]]

TemplateVars(category_name, title, description, ans) ==
    Update([k \in {"title", "description"} |-> IF k = "title" THEN title ELSE description],
           CategoryVars(category_name, ans))

\* the number of input() answers the category-specific prompts take
FieldPrompts(category_name) == IF category_name = "build" THEN 2 ELSE 1

\* a target directory: Path.home() / '.claude' / kind, or the '.claude' / kind
\* directory under the directory `depth` levels below the filesystem root
NoDir == [root |-> "none", depth |-> 0]
HomeDir == [root |-> "home", depth |-> 0]
ProjectDir(depth) == [root |-> "project", depth |-> depth]

\* what one run did: exit status, the error it printed ("" for none), the exception
\* raised ("" for none), whether the target directory was created, how many questions
\* were asked, whether the file was written, its text, its directory and its name
NothingDone == [exit |-> 1, error |-> "", raised |-> "", mkdir |-> FALSE, prompts |-> 0,
                written |-> FALSE, text |-> <<>>, dir |-> NoDir, name |-> <<>>]

Failed(error) == [NothingDone EXCEPT !.error = error]

\* lines 401-404: the directory for the scope; project scope is the working directory's
\* own .claude/commands
CommandsDir(a) == IF a.scope = "user" THEN HomeDir ELSE ProjectDir(a.cwd)

\* lines 467-492: fill the template and write the file
WriteCommand(a, prompts, filled) ==
    IF ~filled.ok
    THEN [NothingDone EXCEPT !.raised = "KeyError", !.mkdir = TRUE, !.prompts = prompts,
                             !.dir = CommandsDir(a)]
    ELSE IF ~a.write_ok
    THEN [NothingDone EXCEPT !.error = "WriteFailed", !.mkdir = TRUE, !.prompts = prompts,
                             !.dir = CommandsDir(a)]
    ELSE [exit |-> 0, error |-> "", raised |-> "", mkdir |-> TRUE, prompts |-> prompts,
          written |-> TRUE, text |-> filled.text, dir |-> CommandsDir(a),
          name |-> a.name \o <<".md">>]

\* lines 443-471, for the category chosen
FillTemplate(a, asked, title, description, category_name) ==
    WriteCommand(a, asked + 3 + FieldPrompts(category_name),
                 Format(COMMAND_TEMPLATES[category_name],
                        TemplateVars(category_name, title, description, a.ans)))

\* lines 433-441: the title, description and category prompts
GatherInputs(a, asked) ==
    FillTemplate(a, asked,
                 get_user_input(a.ans.title, title_case_command_name(a.name), a.ans.again),
                 get_user_input(a.ans.description, <<>>, a.ans.again),
                 category_map(get_user_input(a.ans.category, <<"1">>, <<>>)))

\* a creation that writes over an existing file without asking
CreateUnasked(a) ==
    IF a.scope \notin {"user", "project"} THEN Failed("InvalidScope")
    ELSE IF ~a.mkdir_ok THEN [Failed("MkdirFailed") EXCEPT !.dir = CommandsDir(a)]
    ELSE GatherInputs(a, 0)

\* create_command(command_name, scope); a is the invocation:
\* [name, scope, cwd, markers, exists, mkdir_ok, write_ok, ans]
create_command(a) ==
    IF a.scope \notin {"user", "project"} THEN Failed("InvalidScope")
    ELSE IF ~a.mkdir_ok THEN [Failed("MkdirFailed") EXCEPT !.dir = CommandsDir(a)]
    ELSE IF a.exists /\ LowerText(Strip(a.ans.overwrite)) # <<"y">>
    THEN [NothingDone EXCEPT !.error = "Cancelled", !.mkdir = TRUE, !.prompts = 1,
                             !.dir = CommandsDir(a)]
    ELSE GatherInputs(a, IF a.exists THEN 1 ELSE 0)

\* str.islower() / str.isdigit() of one character of a command name
IsLowerChar(c) == c \in LowerAscii
IsDigitChar(c) == c \in DigitChars

\* lines 510-517 of main(): the command-name check
NameAccepted(name) ==
    /\ \A k \in 1..Len(name) : IsLowerChar(name[k]) \/ IsDigitChar(name[k]) \/ name[k] = "-"
    /\ ~(Len(name) >= 1 /\ name[1] = "-")
    /\ ~(Len(name) >= 1 /\ name[Len(name)] = "-")

\* main() of create_command.py
CreateCommandMain(a) ==
    IF ~NameAccepted(a.name) THEN Failed("InvalidName") ELSE create_command(a)

(***************************************************************************)
(* The project root lookup of activate_agent.py and create_skogix_agent.py *)
(***************************************************************************)
\* current = Path.cwd(); while current != current.parent: ...; else: not found.
\* Directories on the chain are numbered by depth, the filesystem root being 0 (the only
\* directory that is its own parent); markers are the depths whose directory holds .claude
RECURSIVE FindProjectRoot(_, _)
FindProjectRoot(current, markers) ==
    IF current = 0 THEN [found |-> FALSE, depth |-> 0]
    ELSE IF current \in markers THEN [found |-> TRUE, depth |-> current]
    ELSE FindProjectRoot(current - 1, markers)

\* a resolution that takes any scope other than project for user
TargetDirUserByDefault(scope, root) ==
    IF scope = "project"
    THEN (IF root.found THEN [error |-> "", dir |-> ProjectDir(root.depth)]
          ELSE [error |-> "NoProjectRoot", dir |-> NoDir])
    ELSE [error |-> "", dir |-> HomeDir]

\* the if / elif / else over scope: [error, dir]
TargetDir(scope, root) ==
    IF scope = "user" THEN [error |-> "", dir |-> HomeDir]
    ELSE IF scope = "project"
    THEN (IF root.found THEN [error |-> "", dir |-> ProjectDir(root.depth)]
          ELSE [error |-> "NoProjectRoot", dir |-> NoDir])
    ELSE [error |-> "InvalidScope", dir |-> NoDir]

(***************************************************************************)
(* activate_agent.py                                                       *)
(***************************************************************************)
\* lines 19-20: a name is a sequence of pieces, the extension being the piece ".md"
WithMd(agent_name) ==
    IF Len(agent_name) >= 1 /\ agent_name[Len(agent_name)] = ".md" THEN agent_name
    ELSE agent_name \o <<".md">>

\* lines 46-56: mkdir, then shutil.copy2(source, target).  copy2 raises IsADirectoryError
\* when the source path is a directory and SameFileError when source and target are the
\* same file (source_dir is the resolved directory)
CopyAgent(a, target) ==
    IF target.error # "" THEN Failed(target.error)
    ELSE IF a.source = "dir"
    THEN [NothingDone EXCEPT !.raised = "IsADirectoryError", !.mkdir = TRUE,
                             !.dir = target.dir]
    ELSE IF a.source_dir = "agents"
    THEN [NothingDone EXCEPT !.raised = "SameFileError", !.mkdir = TRUE,
                             !.dir = target.dir]
    ELSE [exit |-> 0, error |-> "", raised |-> "", mkdir |-> TRUE, prompts |-> 0,
          written |-> TRUE, text |-> a.content, dir |-> target.dir,
          name |-> WithMd(a.name)]

\* activate_agent(agent_name, source_dir, scope); a is the invocation:
\* [name, source_dir, source, content, scope, cwd, markers], source being what is at
\* <source_dir>/<name>.md: "missing", "file" or "dir"
activate_agent(a) ==
    IF a.source = "missing" THEN Failed("SourceMissing")
    ELSE CopyAgent(a, TargetDir(a.scope, FindProjectRoot(a.cwd, a.markers)))

(***************************************************************************)
(* create_skogix_agent.py                                                  *)
(***************************************************************************)
AgentPlaceholders ==
    {"{name}", "{description}", "{color}", "{role}", "{output_element}",
     "{action_element}", "{domain_principle_name}", "{domain_principle_desc}",
     "{additional_principle_name}", "{additional_principle_desc}", "{input_desc}",
     "{step1}", "{step2}", "{step3}", "{output_desc}", "{quality_bar}",
     "{uncertainty_condition}", "{handling_approach}", "{anti_pattern}"}

\* AGENT_TEMPLATE: frontmatter, headings and replacement fields as written; other prose
\* is the piece "x"
AGENT_TEMPLATE ==
    <<"-", "-", "-", NL,
      "name", ":", " ", "{name}", NL,
      "description", ":", " ", "{description}", NL,
      "color", ":", " ", "{color}", NL,
      "-", "-", "-", NL, NL,
      "You", " ", "are", " ", "the", " ", "**", "{role}", "**", ".", NL, NL,
      "**", "Principles", "**", NL, NL,
      "1", ".", " ", "**", "Hard", "-", "to", "-", "vary", " ", "x", "**", " ", "x", " ",
          "{output_element}", " ", "x", ".", NL,
      "2", ".", " ", "**", "Popper", "ian", " ", "x", "**", " ", "x", " ",
          "{action_element}", " ", "x", ".", NL,
      "3", ".", " ", "**", "KISS", "**", " ", "x", ".", NL,
      "4", ".", " ", "**", "{domain_principle_name}", "**", " ", "x", " ",
          "{domain_principle_desc}", NL,
      "5", ".", " ", "**", "{additional_principle_name}", "**", " ", "x", " ",
          "{additional_principle_desc}", NL, NL,
      "**", "Workflow", "**", NL, NL,
      "*", " ", "**", "Input", "**", ":", " ", "{input_desc}", NL,
      "*", " ", "**", "Steps", "**", ":", NL,
      " ", " ", "1", ".", " ", "{step1}", NL,
      " ", " ", "2", ".", " ", "{step2}", NL,
      " ", " ", "3", ".", " ", "{step3}", NL,
      "*", " ", "**", "Output", "**", ":", " ", "{output_desc}", NL, NL,
      "**", "Quality", " ", "bar", "**", NL, NL,
      "{quality_bar}", NL, NL,
      "If", " ", "{uncertainty_condition}", ",", " ", "{handling_approach}", " ",
          "rather", " ", "than", " ", "{anti_pattern}", ".", NL>>

\* prompt_user(question, default): response is the line typed, stripped
prompt_user(response, default) ==
    IF default # <<>> THEN (IF response # <<>> THEN response ELSE default)
    ELSE response

\* `value or fallback`
OrElse(value, fallback) == IF value # <<>> THEN value ELSE fallback

\* lines 78-129: the keyword arguments of AGENT_TEMPLATE.format; ans holds the lines
\* typed: role, description, color, additional (both optional prompts) and rest (every
\* other prompt)
AgentVars(agent_name, ans) ==
    [ph \in AgentPlaceholders |->
        CASE ph = "{name}"                      -> agent_name
          [] ph = "{description}"               -> prompt_user(ans.description, <<>>)
          [] ph = "{color}"                     -> prompt_user(ans.color, <<"blue">>)
          [] ph = "{role}"                      -> prompt_user(ans.role, <<>>)
          [] ph = "{output_element}"            -> prompt_user(ans.rest, <<"output">>)
          [] ph = "{action_element}"            -> prompt_user(ans.rest, <<"actions">>)
          [] ph = "{additional_principle_name}" ->
                OrElse(prompt_user(ans.additional, <<>>), <<"Efficiency">>)
          [] ph = "{additional_principle_desc}" ->
                OrElse(prompt_user(ans.additional, <<>>), <<"x", " ", "x", ".">>)
          [] OTHER                              -> prompt_user(ans.rest, <<>>)]

\* AGENT_TEMPLATE.format(...): every replacement field is given, and the values are
\* inserted as they are
RECURSIVE FillAgent(_, _)
FillAgent(template, agent_vars) ==
    IF template = <<>> THEN <<>>
    ELSE IF Len(template) = 1
    THEN (IF template[1] \in AgentPlaceholders THEN agent_vars[template[1]] ELSE template)
    ELSE FillAgent(SubSeq(template, 1, Len(template) \div 2), agent_vars)
         \o FillAgent(SubSeq(template, Len(template) \div 2 + 1, Len(template)),
                      agent_vars)

\* the number of questions create_agent asks
AgentPrompts == 18

\* lines 131-153: resolve the directory, create it, write the file
WriteAgent(a, target) ==
    IF target.error # "" THEN [Failed(target.error) EXCEPT !.prompts = AgentPrompts]
    ELSE [exit |-> 0, error |-> "", raised |-> "", mkdir |-> TRUE,
          prompts |-> AgentPrompts, written |-> TRUE,
          text |-> FillAgent(AGENT_TEMPLATE, AgentVars(a.name, a.ans)),
          dir |-> target.dir, name |-> a.name \o <<".md">>]

\* create_agent(agent_name, scope); a is the invocation: [name, scope, cwd, markers, ans]
create_agent(a) == WriteAgent(a, TargetDir(a.scope, FindProjectRoot(a.cwd, a.markers)))

NotMd(t) == t # ".md"

\* lines 174-177: agent_name = sys.argv[1].replace(".md", "")
CreateAgentMain(a) == create_agent([a EXCEPT !.name = SelectSeq(a.name, NotMd)])

(***************************************************************************)
(* Inputs: the files and invocations the runs are given                    *)
(***************************************************************************)
MaxDocLines == 4
MaxStepLines == 12
MaxArgs == 7
MaxFmLines == 3
MaxDepth == 4

RECURSIVE Join(_)
\* '\n'.join(lines)
Join(lines) ==
    IF lines = <<>> THEN <<>>
    ELSE IF Len(lines) = 1 THEN lines[1]
    ELSE lines[1] \o <<NL>> \o Join(Tail(lines))

RECURSIVE Repeat(_, _)
Repeat(text, n) == IF n <= 0 THEN <<>> ELSE text \o Repeat(text, n - 1)

SeqsUpTo(S, n) == UNION {[1..k -> S] : k \in 0..n}

\* file and command names
NameChars == {"a", "1", "-", "A", NL}
ExampleNames == {<<"M", "y", "_", "C", "o", "m", "m", "a", "n", "d">>,
                 <<"m", "y", "-", "c", "o", "m", "m", "a", "n", "d">>}
LongNames == {[k \in 1..n |-> "a"] : n \in (NameLongLimit - 1)..(NameLongLimit + 1)}
Names == SeqsUpTo(NameChars, MaxNameLen) \cup ExampleNames \cup LongNames

\* command documents
X == <<"x">>
AllX == [k \in {"title", "description", "target", "concerns", "action", "action_type",
                "workflow_task"} |-> X]
GoodCommand == Substitute(COMMAND_TEMPLATES.generation, AllX)

DocStart == <<"#", " ", "x", NL, NL>> \o H2(<<"Task">>)
SmallCommand == DocStart \o <<"$ARGUMENTS", NL>>

ArgsDocs ==
    {DocStart \o H2(<<"Process">>) \o Repeat(Step("1", X), 3) \o Repeat(ARGUMENTS \o sep, k)
        : k \in 0..MaxArgs, sep \in {<<>>, <<" ">>, <<NL>>}}

HeadingLineKinds == {<<"#", " ", "x">>, <<"#", "#", " ", "x">>, <<"#", "#", "#", " ", "x">>,
                     <<" ", "#", "#", " ", "x">>, <<"$ARGUMENTS">>}
HeadingDocs == {Join(ls) : ls \in SeqsUpTo(HeadingLineKinds, MaxDocLines)}

ProcessHeadingKinds ==
    {<<>>,                                                \* no Process heading
     <<"#", "#", " ", "Process", NL>>,
     <<"#", "#", " ", "Process", NL, NL>>,
     <<"#", "#", " ", "Process", " ", NL>>,
     <<"#", "#", "#", " ", "Process", NL>>,
     <<"#", "#", " ", "Process", "x", NL>>}
SubHeadingKinds == {<<>>, <<"#", "#", "#", " ", "x", NL>>, <<"#", "#", " ", "x", NL>>}

ProcessDocs ==
    {DocStart \o <<"$ARGUMENTS", NL>> \o h \o Repeat(Step("1", X), n1) \o sub
              \o Repeat(Step("2", X), n2)
        : h \in ProcessHeadingKinds, n1 \in 0..MaxStepLines, sub \in SubHeadingKinds,
          n2 \in 0..2}
    \cup {DocStart \o <<"#", "#", " ", "Process">>}

OddDocs == {<<>>, <<" ", NL>>, <<"prose">>, <<"prose", "prose">>,
            GoodCommand \o <<"[fence]", NL, "x", NL, "[fence]", NL>>,
            DocStart \o H2(<<"Process">>) \o <<"1", ".", NL, "x", NL, "1", ".", " ", " ", NL>>}

CommandFile(state, stem, suffix, content) ==
    [state |-> state, stem |-> stem, suffix |-> suffix, content |-> content]

OkStem == <<"a", "-", "b">>

CommandFiles ==
    {CommandFile("ok", n, ".md", SmallCommand) : n \in Names \ {<<>>}}
    \cup {CommandFile("ok", OkStem, ".md", c)
            : c \in ArgsDocs \cup HeadingDocs \cup ProcessDocs \cup OddDocs}
    \cup {CommandFile(st, OkStem, sfx, c)
            : st \in {"ok", "missing", "unreadable"}, sfx \in {".md", ".txt", ""},
              c \in {GoodCommand, <<"x">>}}

\* agent documents
FmCatalogue ==
    << <<"name", ":", " ", "x">>,
       <<"name", ":", " ", "42">>,
       <<"description", ":", " ", "x">>,
       <<"description", ":", " ", "42">>,
       <<"description", ":", " ", "0">>,
       <<"description", ":", " ", "x", ":", " ", "x">>,
       <<"color", ":", " ", "blue">>,
       <<"color", ":", " ", "pink">>,
       <<"hello">>,
       <<"my", " ", "name">>,
       <<"42">>,
       <<"-", " ", "x">>,
       <<"-", " ", "name">>,
       <<>> >>

\* the catalogue lines chosen by a set of indices, in catalogue order or reversed
PickIn(asc, reversed) ==
    [k \in 1..Len(asc) |-> FmCatalogue[IF reversed THEN asc[Len(asc) + 1 - k] ELSE asc[k]]]

Pick(idx, reversed) == PickIn(Ascending(idx), reversed)

\* the blocks safe_load is modelled for
ModelledKinds(kinds) ==
    \/ "invalid" \in kinds /\ "unmodelled" \notin kinds
    \/ kinds \in {{}, {"entry"}, {"item"}, {"scalar"}, {"entry", "scalar"}}

YamlModelled(lines) == ModelledKinds(KindsOf(lines) \ {"blank"})

Frontmatters ==
    {ls \in {Pick(idx, r) : idx \in {i \in SUBSET (1..Len(FmCatalogue)) :
                                        Cardinality(i) <= MaxFmLines},
                            r \in BOOLEAN} : YamlModelled(ls)}

GoodBody ==
    <<NL, "You", " ", "are", " ", "the", " ", "**", "Role", "**", ".", NL, NL,
      "**", "Principles", "**", NL, NL,
      "1", ".", " ", "**", "Hard", "-", "to", "-", "vary", " ", "x", "**", NL,
      "2", ".", " ", "**", "Popper", "ian", " ", "x", "**", NL,
      "3", ".", " ", "**", "KISS", "**", NL, NL,
      "**", "Workflow", "**", NL, NL,
      "*", " ", "**", "Input", "**", ":", " ", "x", NL,
      "*", " ", "**", "Steps", "**", ":", NL,
      "*", " ", "**", "Output", "**", ":", " ", "x", NL, NL,
      "**", "Quality", " ", "bar", "**", NL, NL,
      "If", " ", "x", ",", " ", "x", " ", "rather", " ", "than", " ", "x", ".", NL>>

Bodies == {<<>>, <<" ", NL>>, <<"x", NL>>, GoodBody}

AgentDoc(open, lines, close, body) == open \o Join(lines) \o close \o body

Opens == {Dashes \o <<NL>>, Dashes \o <<" ", NL>>, <<"-", "-", NL>>, <<>>,
          <<"x", NL>> \o Dashes \o <<NL>>}
Closes == {<<NL>> \o Dashes \o <<NL>>, <<NL>> \o Dashes, <<NL>> \o Dashes \o <<" ", NL>>,
           <<NL, "-", "-", "-", "-", NL>>, <<>>}
PlainFm == <<FmCatalogue[1], FmCatalogue[3], FmCatalogue[7]>>

\* values of a `model:` line; text that is not a word of its own is split into pieces
ModelValues == {<<"sonnet">>, <<"opus">>, <<"haiku">>, <<"inherit">>, <<"sonnet", "x">>,
                <<"gpt">>, <<"x", "opus">>, <<"opus", " ">>}

\* bodies naming a workflow or a quality section in one letter case or another
CaseBodies == {<<w, NL>> : w \in {"WORKFLOW", "Workflow", "workflow", "Method", "STEPS",
                                  "QUALITY", "Quality", "Checklist", "guidelines"}}
              \cup {<<"WORKFLOW", " ", "QUALITY", NL>>, <<"workflow", " ", "quality", NL>>}

AgentContents ==
    {AgentDoc(Dashes \o <<NL>>, ls, <<NL>> \o Dashes \o <<NL>>, b)
        : ls \in Frontmatters, b \in Bodies}
    \cup {AgentDoc(Dashes \o <<NL>>, PlainFm, <<NL>> \o Dashes \o <<NL>>, b)
            : b \in CaseBodies}
    \cup {AgentDoc(Dashes \o <<NL>>, PlainFm \o <<<<"model", ":", " ">> \o m>>,
                    <<NL>> \o Dashes \o <<NL>>, b)
            : m \in ModelValues, b \in {<<>>, <<"x", NL>>}}
    \cup {AgentDoc(o, ls, c, b)
            : o \in Opens, c \in Closes, ls \in {PlainFm, <<>>}, b \in {<<>>, <<"x", NL>>}}

AgentFiles ==
    {CommandFile("ok", OkStem, ".md", c) : c \in AgentContents}
    \cup {CommandFile("missing", OkStem, ".md", <<>>)}

NoFile == CommandFile("none", <<>>, "", <<>>)

\* invocations of create_command.py
Values == {X, <<"x", " ", "x">>, <<"{target}">>}
Answers(overwrite, title, description, category, field1, field2) ==
    [overwrite |-> overwrite, title |-> title, description |-> description,
     category |-> category, field1 |-> field1, field2 |-> field2, again |-> X]
PlainAnswers == Answers(<<"y">>, <<>>, X, <<>>, X, X)
Invocation(name, scope, exists, mkdir_ok, write_ok, ans) ==
    [name |-> name, scope |-> scope, cwd |-> 1, markers |-> {1}, exists |-> exists,
     mkdir_ok |-> mkdir_ok, write_ok |-> write_ok, ans |-> ans]

Invocations ==
    {Invocation(n, "user", FALSE, TRUE, TRUE, PlainAnswers) : n \in Names}
    \cup {Invocation(OkStem, sc, ex, mk, wr,
                     Answers(ow, <<>>, X, <<>>, X, X))
            : sc \in {"user", "project", "global"}, ex \in BOOLEAN, mk \in BOOLEAN,
              wr \in BOOLEAN, ow \in {<<"y">>, <<"Y">>, <<"n">>, <<>>}}
    \cup {Invocation(OkStem, "user", FALSE, TRUE, TRUE, Answers(<<>>, t, d, c, f1, f2))
            : t \in {<<>>, <<"T">>, <<"{title}">>, ProcessHeading}, d \in Values \cup {ProcessHeading},
              c \in {<<>>, <<"1">>, <<"2">>, <<"3">>, <<"4">>, <<"5">>, <<"x">>},
              f1 \in Values, f2 \in Values}

NoArgs == Invocation(<<>>, "", FALSE, FALSE, FALSE, Answers(<<>>, <<>>, <<>>, <<>>, <<>>, <<>>))

\* working directories: the depth of the working directory and the depths, on the chain
\* from the filesystem root to it, of the directories that hold .claude
Envs == UNION {{[cwd |-> c, markers |-> m] : m \in SUBSET (0..c)} : c \in 0..MaxDepth}

In(a, env) == [a EXCEPT !.cwd = env.cwd, !.markers = env.markers]

Scopes == {"user", "project", "global"}

PlacedInvocations ==
    {In(Invocation(OkStem, sc, ex, TRUE, TRUE, PlainAnswers), env)
        : sc \in Scopes, ex \in BOOLEAN, env \in Envs}

\* invocations of activate_agent.py
Activation(name, source_dir, source, content, scope) ==
    [name |-> name, source_dir |-> source_dir, source |-> source, content |-> content,
     scope |-> scope, cwd |-> 1, markers |-> {1}]

Activations ==
    {Activation(n, sd, src, c, sc)
        : n \in {<<"a">>, <<"a", ".md">>, <<"m", "d">>}, sd \in {"src", "agents"},
          src \in {"missing", "file", "dir"}, c \in {X, GoodBody}, sc \in Scopes}
    \cup {In(Activation(<<"a">>, "src", src, X, sc), env)
            : src \in {"missing", "file", "dir"}, sc \in Scopes, env \in Envs}

\* invocations of create_skogix_agent.py
AgentAnswers(role, description, color, additional, rest) ==
    [role |-> role, description |-> description, color |-> color,
     additional |-> additional, rest |-> rest]

PlainAgentAnswers == AgentAnswers(<<"Role">>, X, <<>>, <<>>, X)

AgentInvocation(name, scope, ans) ==
    [name |-> name, scope |-> scope, cwd |-> 1, markers |-> {1}, ans |-> ans]

AgentNames == {X, <<"42">>, <<>>, <<"a", "-", "b">>, <<"x", ".md">>}

AgentInvocations ==
    {AgentInvocation(n, "user", AgentAnswers(r, d, c, ad, rest))
        : n \in AgentNames, r \in {<<>>, <<"Role">>},
          d \in {<<>>, X, <<"42">>, <<"x", ":", " ", "x">>},
          c \in {<<>>, <<"blue">>, <<"pink">>}, ad \in {<<>>, X}, rest \in {<<>>, X}}
    \cup {In(AgentInvocation(X, sc, PlainAgentAnswers), env) : sc \in Scopes, env \in Envs}

\* mappings handed to the template fill: any set of fields, each with the same value
FillRequests ==
    {[category |-> c, vars |-> [k \in keys |-> v]]
        : c \in {"generation", "analysis", "build", "workflow"},
          keys \in SUBSET {FieldOf(ph) : ph \in Placeholders},
          v \in {X, <<"{target}">>}}

(***************************************************************************)
(* The runs: one script is started on one input and runs to its end        *)
(***************************************************************************)
VARIABLES tool,        \* the script that is run
          file,        \* the file a validator is given
          args,        \* the invocation of create_command.py, or the fill request
          pc,          \* "start" before the run, "done" after it
          verdict,     \* what validation returned: "pass", "fail"; "crash" for an exception
          top,         \* errors printed directly, outside the findings lists
          errors, warnings, info,   \* the findings lists when the run ended
          shown,       \* the errors the run printed
          outcome,     \* what a run of a driver did
          first        \* what the first validation returned, once the file is validated again

vars == <<tool, file, args, pc, verdict, top, errors, warnings, info, shown, outcome, first>>

NotRun == [NothingDone EXCEPT !.exit = -1]

Validators == {"validate_skogix_agent", "validate_agent", "validate_command"}

NoFirst == [verdict |-> "none", top |-> <<>>, e |-> <<>>, w |-> <<>>, i |-> <<>>,
            shown |-> <<>>]

Init ==
    /\ \/ tool \in {"validate_skogix_agent", "validate_agent"} /\ file \in AgentFiles
          /\ args = NoArgs
       \/ tool = "validate_command" /\ file \in CommandFiles /\ args = NoArgs
       \/ tool = "create_command" /\ file = NoFile
          /\ args \in Invocations \cup PlacedInvocations
       \/ tool = "activate_agent" /\ file = NoFile /\ args \in Activations
       \/ tool = "create_skogix_agent" /\ file = NoFile /\ args \in AgentInvocations
       \/ tool = "template_fill" /\ file = NoFile /\ args \in FillRequests
    /\ pc = "start"
    /\ verdict = "none"
    /\ top = <<>> /\ errors = <<>> /\ warnings = <<>> /\ info = <<>> /\ shown = <<>>
    /\ outcome = NotRun
    /\ first = NoFirst

Finish(r, i) ==
    /\ pc' = "done"
    /\ verdict' = r.verdict
    /\ top' = r.top
    /\ errors' = r.e
    /\ warnings' = r.w
    /\ info' = i
    /\ shown' = r.shown
    /\ UNCHANGED <<tool, file, args, outcome, first>>

FinishCommand(r) ==
    /\ pc' = "done"
    /\ verdict' = r.verdict
    /\ top' = NoTop
    /\ errors' = r.e
    /\ warnings' = r.w
    /\ info' = r.i
    /\ shown' = r.shown
    /\ UNCHANGED <<tool, file, args, outcome, first>>

RunValidateSkogixAgent ==
    /\ pc = "start" /\ tool = "validate_skogix_agent"
    /\ Finish(SkogixValidate(file), <<>>)

RunValidateAgent ==
    /\ pc = "start" /\ tool = "validate_agent"
    /\ Finish(LenientValidate(file), <<>>)

RunValidateCommand ==
    /\ pc = "start" /\ tool = "validate_command"
    /\ FinishCommand(CommandValidate(file))

RunCreateCommand ==
    /\ pc = "start" /\ tool = "create_command"
    /\ pc' = "done"
    /\ outcome' = CreateCommandMain(args)
    /\ UNCHANGED <<tool, file, args, verdict, top, errors, warnings, info, shown, first>>

RunActivateAgent ==
    /\ pc = "start" /\ tool = "activate_agent"
    /\ pc' = "done"
    /\ outcome' = activate_agent(args)
    /\ UNCHANGED <<tool, file, args, verdict, top, errors, warnings, info, shown, first>>

RunCreateSkogixAgent ==
    /\ pc = "start" /\ tool = "create_skogix_agent"
    /\ pc' = "done"
    /\ outcome' = CreateAgentMain(args)
    /\ UNCHANGED <<tool, file, args, verdict, top, errors, warnings, info, shown, first>>

\* the file a driver wrote, as the validators see it: Path(name).stem and .suffix (a
\* name that is nothing but ".md" is a hidden file without a suffix)
CreatedFile(o) ==
    IF Len(o.name) = 1
    THEN CommandFile("ok", o.name, "", o.text)
    ELSE CommandFile("ok", SubSeq(o.name, 1, Len(o.name) - 1), ".md", o.text)

\* the next step both drivers print: the file just written is given to a validator
ValidateCreated ==
    /\ pc = "done" /\ tool \in {"create_command", "create_skogix_agent"}
    /\ outcome.written
    /\ tool' \in (IF tool = "create_command" THEN {"validate_command"}
                  ELSE {"validate_skogix_agent", "validate_agent"})
    /\ file' = CreatedFile(outcome)
    /\ pc' = "start"
    /\ UNCHANGED <<args, verdict, top, errors, warnings, info, shown, outcome, first>>

\* a validator that carried its findings lists over from one run to the next
KeptLists(before, r) ==
    [r EXCEPT !.e = before.e \o @, !.w = before.w \o @, !.i = before.i \o @]

\* every run is a new process: CommandValidator.__init__ and the validate_agent
\* functions start from empty lists, so a run's result owes nothing to the run before
FreshLists(before, r) == r

\* what a validator returns for the file, as [verdict, top, e, w, i, shown]
Validation ==
    CASE tool = "validate_command" -> CommandValidate(file) @@ [top |-> NoTop]
      [] tool = "validate_skogix_agent" -> SkogixValidate(file) @@ [i |-> <<>>]
      [] tool = "validate_agent" -> LenientValidate(file) @@ [i |-> <<>>]

Current == [verdict |-> verdict, top |-> top, e |-> errors, w |-> warnings, i |-> info,
            shown |-> shown]

Again(r) ==
    /\ pc' = "again"
    /\ first' = Current
    /\ verdict' = r.verdict
    /\ top' = r.top
    /\ errors' = r.e
    /\ warnings' = r.w
    /\ info' = r.i
    /\ shown' = r.shown
    /\ UNCHANGED <<tool, file, args, outcome>>

\* the same validator is run once more on the file, which no run has changed
Revalidate ==
    /\ pc = "done" /\ tool \in Validators
    /\ Again(FreshLists(Current, Validation))

\* lines 470-471 on their own: template = COMMAND_TEMPLATES[category_name];
\* content = template.format(**template_vars)
Filled(filled) ==
    [NothingDone EXCEPT !.exit = IF filled.ok THEN 0 ELSE 1,
                        !.raised = IF filled.ok THEN "" ELSE "KeyError",
                        !.text = filled.text]

RunTemplateFill ==
    /\ pc = "start" /\ tool = "template_fill"
    /\ pc' = "done"
    /\ outcome' = Filled(Format(COMMAND_TEMPLATES[args.category], args.vars))
    /\ UNCHANGED <<tool, file, args, verdict, top, errors, warnings, info, shown, first>>

Next ==
    \/ RunValidateSkogixAgent
    \/ RunValidateAgent
    \/ RunValidateCommand
    \/ RunCreateCommand
    \/ RunActivateAgent
    \/ RunCreateSkogixAgent
    \/ RunTemplateFill
    \/ ValidateCreated
    \/ Revalidate

Spec == Init /\ [][Next]_vars


(***************************************************************************)
(* Properties                                                              *)
(***************************************************************************)
AgentValidators == {"validate_skogix_agent", "validate_agent"}

Validated == pc = "done" /\ tool \in Validators

\* the run returned a verdict rather than ending in an exception
Returned == verdict \in {"pass", "fail"}

\* line.rstrip()
RStripTo(line, idx) == IF idx = {} THEN <<>> ELSE Slice(line, 1, SetMax(idx))
RStrip(line) == RStripTo(line, NonWs(line))

\* the text begins with a line `---` and has a later line `---`
DelimitedAt(lines) ==
    /\ Len(lines) >= 2
    /\ RStrip(lines[1]) = Dashes
    /\ \E k \in 2..Len(lines) : RStrip(lines[k]) = Dashes

HasHeaderBlock(content) == DelimitedAt(FmLines(content))

\* C1 (as amended).  A validator returns "pass" exactly when the run recorded no error
\* in its errors list and printed no error directly; an error is printed directly,
\* with the errors list left empty, only by the agent validators' early returns (file
\* not found; in validate_agent.py also frontmatter not found).  The command validator
\* passes iff its errors list is empty on every path.  Warnings and info findings have
\* no part in the verdict.
C1_VerdictFollowsErrors ==
    (Validated /\ Returned) =>
        /\ (verdict = "pass") <=> (errors = <<>> /\ top = <<>>)
        /\ top # <<>> =>
              /\ errors = <<>>
              /\ tool \in AgentValidators
              /\ (file.state = "missing" \/ tool = "validate_agent")
        /\ tool = "validate_command" => ((verdict = "pass") <=> (errors = <<>>))

\* C1, witness: a run that passes although it recorded warnings
C1_PassWithWarnings ==
    Validated /\ verdict = "pass" /\ warnings # <<>> /\ errors = <<>>

\* C1 as stated: the verdict is "pass" if and only if the errors list is empty, on
\* every path of every validator
C1_PassIffErrorsListEmpty ==
    (Validated /\ Returned) => ((verdict = "pass") <=> (errors = <<>>))

\* the frontmatter block the strict validator found is not valid YAML
InvalidHeader(content) ==
    StrictFrontmatter(content).found /\ YamlLoad(StrictFrontmatter(content).fm).kind = "error"

\* C2 as stated.  For an agent text without a leading `---`-delimited block (in
\* validate_skogix_agent.py also: with a block that is not valid YAML) validation
\* fails, exactly one error is reported to the user, and no field or body check has
\* run (no other error and no warning was recorded).
C2_NoHeaderIsOneReportedError ==
    (/\ pc = "done"
     /\ tool \in AgentValidators
     /\ file.state = "ok"
     /\ \/ ~HasHeaderBlock(file.content)
        \/ tool = "validate_skogix_agent" /\ InvalidHeader(file.content))
    => /\ verdict = "fail"
       /\ Len(shown) = 1
       /\ Len(top) + Len(errors) = 1
       /\ warnings = <<>>

\* a required field that is missing from what the header holds, or is not a string
Lacks(y, key) == y.kind # "map" \/ key \notin DOMAIN y.map \/ y.map[key].t # "str"

LackCount(y) ==
    (IF Lacks(y, "name") THEN 1 ELSE 0) + (IF Lacks(y, "description") THEN 1 ELSE 0)

\* C3 as stated.  For an agent document with a delimited and parsable frontmatter
\* block, whatever it holds, validate_skogix_agent.py returns a verdict and the number of
\* errors equals the number of fields among name and description that are missing or
\* not a string.
C3_ErrorsCountLackingFields ==
    (/\ pc = "done"
     /\ tool = "validate_skogix_agent"
     /\ file.state = "ok"
     /\ StrictFrontmatter(file.content).found
     /\ ~InvalidHeader(file.content))
    => /\ Returned
       /\ Len(errors) = LackCount(YamlLoad(StrictFrontmatter(file.content).fm))

\* C4 as stated.  For every existing input file each validator ends by returning a
\* pass/fail verdict: no content makes it end in an unhandled exception.
C4_ValidatorsAlwaysReturn ==
    (Validated /\ file.state # "missing") => Returned


\* validation got as far as running the checks on the content
ChecksRan ==
    pc = "done" /\ tool = "validate_command" /\ file.state = "ok" /\ file.suffix = ".md"

\* kebab-case: a non-empty name of lowercase letters, digits and hyphens in which every
\* hyphen stands between two characters that are not hyphens
IsKebabCase(name) ==
    /\ name # <<>>
    /\ \A k \in 1..Len(name) :
          \/ name[k] \in LowerAscii \cup DigitChars
          \/ /\ name[k] = "-"
             /\ 1 < k /\ k < Len(name)
             /\ name[k - 1] # "-" /\ name[k + 1] # "-"

\* C5 as stated.  validate-command records a file-name error iff the stem is not
\* kebab-case, and independently warns when the stem is longer than 50 or shorter than
\* 3 characters.
C5_NamingErrorIffNotKebab ==
    ChecksRan =>
        /\ NumOf(errors, "NotKebabCase") = (IF IsKebabCase(file.stem) THEN 0 ELSE 1)
        /\ NumOf(warnings, "NameTooLong") = (IF Len(file.stem) > 50 THEN 1 ELSE 0)
        /\ NumOf(warnings, "NameTooShort") = (IF Len(file.stem) < 3 THEN 1 ELSE 0)

\* the run did nothing but exit with failure
Rejected ==
    outcome.exit = 1 /\ ~outcome.mkdir /\ outcome.prompts = 0 /\ ~outcome.written

\* C6 as stated.  create-command rejects every command name that is not kebab-case
\* before creating a directory, prompting or writing, and lets every kebab-case name
\* through to the creation of the command.
C6_OnlyKebabNamesAccepted ==
    (pc = "done" /\ tool = "create_command") =>
        IF IsKebabCase(args.name)
        THEN (args.scope \in {"user", "project"} /\ args.mkdir_ok) => outcome.mkdir
        ELSE Rejected

\* how often the token occurs in the content
ArgumentsCount(content) == Cardinality({k \in 1..Len(content) : content[k] = "$ARGUMENTS"})

ArgumentsFindingsFor(n) ==
    /\ NumOf(errors, "MissingArguments") = (IF n = 0 THEN 1 ELSE 0)
    /\ NumOf(warnings, "ManyArguments") = (IF n > 5 THEN 1 ELSE 0)
    /\ {k \in 1..Len(info) : info[k].id = "FoundArguments"} =
          (IF n = 0 THEN {} ELSE {k \in 1..Len(info) : info[k] = FA("FoundArguments", <<n>>)})
    /\ NumOf(info, "FoundArguments") = (IF n = 0 THEN 0 ELSE 1)

\* C7 (as amended).  The $ARGUMENTS check adds exactly one error when the token does
\* not occur and none otherwise, a warning exactly when it occurs more than 5 times,
\* and one info finding carrying the count exactly when it occurs at least once.
C7_ArgumentsFindings == ChecksRan => ArgumentsFindingsFor(ArgumentsCount(file.content))

\* C7, witness: a content with more than 5 occurrences, warned about and counted
C7_ManyArgumentsWarned ==
    /\ ChecksRan
    /\ ArgumentsCount(file.content) > 5
    /\ NumOf(warnings, "ManyArguments") = 1
    /\ NumOf(info, "FoundArguments") = 1

\* C7 as stated: the occurrence count is always reported as an info finding
C7_CountAlwaysReported == ChecksRan => NumOf(info, "FoundArguments") = 1

\* the lines of the content that are headings: their first character after leading
\* blanks is `#`
HeadingLines(lines) ==
    {n \in 1..Len(lines) : \E k \in 1..Len(lines[n]) :
        lines[n][k] = "#" /\ \A j \in 1..(k - 1) : IsWs(lines[n][j])}

\* the number of `#` characters a line starts with
LevelOf(line) == Cardinality({k \in 1..Len(line) : \A j \in 1..k : line[j] = "#"})

\* the heading before heading n
Predecessor(hs, n) == SetMax({m \in hs : m < n})

\* the headings whose level exceeds the level of the heading before them by more than one
Jumps(lines, hs) ==
    {n \in hs : /\ \E m \in hs : m < n
                /\ LevelOf(lines[n]) > LevelOf(lines[Predecessor(hs, n)]) + 1}

JumpWarning(lines, hs, n) ==
    FA("HeadingJump", <<LevelOf(lines[Predecessor(hs, n)]), LevelOf(lines[n]), n>>)

ExpectedHeadingWarnings(lines, hs, jumps) ==
    (IF hs # {} /\ LevelOf(lines[SetMin(hs)]) # 1
     THEN <<FA("FirstHeadingNotH1", <<LevelOf(lines[SetMin(hs)])>>)>> ELSE <<>>)
    \o [k \in 1..Len(jumps) |-> JumpWarning(lines, hs, jumps[k])]

IsHeadingWarning(f) == f.id \in {"FirstHeadingNotH1", "HeadingJump"}

HeadingFindingsFor(lines, hs) ==
    /\ SelectSeq(warnings, IsHeadingWarning)
          = ExpectedHeadingWarnings(lines, hs, Ascending(Jumps(lines, hs)))
    /\ NumOf(errors, "NoHeadings") = (IF hs = {} THEN 1 ELSE 0)
    /\ \A k \in 1..Len(info) :
          info[k].id = "FoundHeadings" => info[k].args = <<Cardinality(hs)>>

\* C8.  Headings are collected in document order with level = number of leading `#`
\* and their line number; one warning is added iff the first heading's level is not 1,
\* and exactly one warning, citing the later heading's line, for each adjacent pair of
\* headings whose later level exceeds the earlier by more than one; none for a
\* decrease or a rise of exactly one.
C8_HeadingWarnings ==
    ChecksRan => HeadingFindingsFor(FmLines(file.content), HeadingLines(FmLines(file.content)))

\* C8, witness: a document with a jump and, elsewhere, a rise of one or a decrease
C8_JumpAmongSteps ==
    /\ ChecksRan
    /\ NumOf(warnings, "HeadingJump") = 1
    /\ Cardinality(HeadingLines(FmLines(file.content))) >= 3
    /\ NumOf(warnings, "FirstHeadingNotH1") = 0


\* a line `## Process`, and a line that is a level-2 heading
IsProcessHeading(line) == RStrip(line) = ProcessHeading
IsLevel2Heading(line) == LevelOf(line) = 2

\* a numbered list item: digits, a period, blank space and text, from the line's start
IsNumberedItem(line) ==
    /\ Len(line) >= 4
    /\ IsDigits(line[1]) /\ line[2] = "." /\ line[3] = " "
    /\ \E k \in 4..Len(line) : ~IsWs(line[k])

\* the lines of the section that starts after heading line h: up to the next level-2
\* heading or the end of the document
SectionLines(lines, h) ==
    {n \in (h + 1)..Len(lines) : \A m \in (h + 1)..n : ~IsLevel2Heading(lines[m])}

ItemCount(lines, h) ==
    Cardinality({n \in SectionLines(lines, h) : IsNumberedItem(lines[n])})

StepFindingIds == {"NoNumberedSteps", "TooFewSteps", "TooManySteps", "StepsOk"}

IsStepFinding(f) == f.id \in StepFindingIds

ExpectedStepFinding(n) ==
    IF n = 0 THEN F("NoNumberedSteps")
    ELSE IF n <= 2 THEN FA("TooFewSteps", <<n>>)
    ELSE IF n > 10 THEN FA("TooManySteps", <<n>>)
    ELSE FA("StepsOk", <<n>>)

StepFindingsFor(lines, hs) ==
    SelectSeq(warnings \o info, IsStepFinding)
        = (IF hs = {} THEN <<>> ELSE <<ExpectedStepFinding(ItemCount(lines, SetMin(hs)))>>)

\* C9 as stated.  With a `## Process` section the numbered items counted are those
\* between that heading and the next level-2 heading or the end of the document, and
\* exactly one finding results from the count: a warning for 0, "too few" for 1-2,
\* "too many" for more than 10, an info finding for 3-10; without the section the
\* check adds nothing.
C9_StepsOfProcessSection ==
    ChecksRan =>
        StepFindingsFor(FmLines(file.content),
                        {n \in 1..Len(FmLines(file.content)) :
                            IsProcessHeading(FmLines(file.content)[n])})

\* the fields each category's template declares
DeclaredFields(category) ==
    {"title", "description"}
    \cup (CASE category = "generation" -> {"target"}
            [] category = "analysis"   -> {"concerns"}
            [] category = "build"      -> {"action", "action_type"}
            [] category = "workflow"   -> {"workflow_task"})

\* where a text holds a placeholder marker
Markers(text) == {k \in 1..Len(text) : text[k] \in Placeholders}

Filling == pc = "done" /\ tool = "template_fill"
Creating == pc = "done" /\ tool = "create_command"

\* no value handed to the fill holds a placeholder marker itself
SuppliedClean ==
    IF tool = "template_fill"
    THEN \A k \in DOMAIN args.vars : Markers(args.vars[k]) = {}
    ELSE /\ Markers(args.ans.title) = {} /\ Markers(args.ans.description) = {}
         /\ Markers(args.ans.field1) = {} /\ Markers(args.ans.field2) = {}

\* C10 (as amended).  Template fill succeeds iff every placeholder of the chosen
\* category's template has an entry in the supplied mapping, and otherwise fails on the
\* missing field with no text produced and nothing written; the mapping create-command
\* gathers covers the placeholders of each of the four categories; and on success the
\* output holds a placeholder marker only where a supplied value held one.
C10_FillSucceedsIffCovered ==
    /\ Filling =>
          /\ (outcome.exit = 0) <=> (DeclaredFields(args.category) \subseteq DOMAIN args.vars)
          /\ outcome.exit # 0 =>
                outcome.raised = "KeyError" /\ outcome.text = <<>> /\ ~outcome.written
    /\ Creating => outcome.raised = ""
    /\ ((Filling \/ Creating) /\ outcome.exit = 0 /\ SuppliedClean)
          => Markers(outcome.text) = {}

\* C10, witness: a fill over a mapping that lacks the title fails on the missing field
C10_MissingTitleFails ==
    /\ Filling
    /\ "title" \notin DOMAIN args.vars
    /\ "description" \in DOMAIN args.vars
    /\ outcome.raised = "KeyError"

\* C10 as stated: on success the output text contains no placeholder marker
C10_NoMarkerOnSuccess ==
    ((Filling \/ Creating) /\ outcome.exit = 0) => Markers(outcome.text) = {}

\* the category prompt was reached and answered with something other than 1 to 4
CategoryAsked ==
    /\ Creating
    /\ NameAccepted(args.name)
    /\ args.scope \in {"user", "project"}
    /\ args.mkdir_ok
    /\ ~(args.exists /\ LowerText(Strip(args.ans.overwrite)) # <<"y">>)

UnknownCategoryGiven ==
    /\ CategoryAsked
    /\ args.ans.category \notin {<<>>, <<"1">>, <<"2">>, <<"3">>, <<"4">>}

\* C11 as stated: when the category supplied to command creation is not one of the four
\* (selected as 1 to 4), the run fails with UnknownCategory and writes no command file.
C11_UnknownCategoryFails ==
    UnknownCategoryGiven =>
        /\ outcome.exit # 0
        /\ outcome.raised = "UnknownCategory"
        /\ ~outcome.written

\* the drivers that resolve a target directory from a scope
Drivers == {"activate_agent", "create_skogix_agent", "create_command"}

\* a driver's run got as far as looking at its scope argument
ScopeReached ==
    /\ pc = "done" /\ tool \in Drivers
    /\ tool = "activate_agent" => args.source # "missing"
    /\ tool = "create_command" => NameAccepted(args.name)

\* the directories, from the working directory up to the filesystem root, holding .claude
MarkersOnChain == {d \in 0..args.cwd : d \in args.markers}

\* C12 as stated: for project scope every driver resolves the target to the .claude
\* subdirectory of the nearest directory, among the working directory and its ancestors,
\* that holds the marker, and fails with NoProjectRoot, creating no directory and
\* writing no file, when no directory on the chain up to the root holds it.
C12_ProjectScopeFindsNearestMarker ==
    (ScopeReached /\ args.scope = "project") =>
        IF MarkersOnChain = {}
        THEN /\ outcome.error = "NoProjectRoot"
             /\ ~outcome.mkdir /\ ~outcome.written
        ELSE outcome.dir = ProjectDir(SetMax(MarkersOnChain))

InvalidScopeGiven == pc = "done" /\ tool \in Drivers /\ args.scope \notin {"user", "project"}

\* C13 (as amended).  For any scope value other than user and project each driver fails,
\* and on that failure no directory has been created and no file has been written or
\* copied, whatever was entered at prompts beforehand; the failure is InvalidScope
\* whenever the run got as far as looking at the scope, and otherwise the failure of the
\* earlier check (activate: source not found; create-command: command name rejected).
C13_InvalidScopeFails ==
    InvalidScopeGiven =>
        /\ outcome.exit # 0
        /\ ~outcome.mkdir /\ ~outcome.written /\ outcome.dir = NoDir
        /\ ScopeReached => outcome.error = "InvalidScope"
        /\ ~ScopeReached => outcome.error \in {"SourceMissing", "InvalidName"}

\* C13, witness: create-agent asked all its questions, then failed on the scope
C13_InvalidScopeAfterPrompts ==
    /\ InvalidScopeGiven /\ tool = "create_skogix_agent"
    /\ outcome.prompts = AgentPrompts
    /\ outcome.error = "InvalidScope" /\ ~outcome.written

\* C13 as stated: for any scope value other than user and project each driver fails
\* with InvalidScope, no directory created and no file written or copied.
C13_AlwaysInvalidScope ==
    InvalidScopeGiven =>
        /\ outcome.error = "InvalidScope"
        /\ ~outcome.mkdir /\ ~outcome.written

Activated == pc = "done" /\ tool = "activate_agent"

\* the three failures the activate contract names
ActivateMustFail ==
    \/ args.source = "missing"
    \/ args.scope \notin {"user", "project"}
    \/ args.scope = "project" /\ MarkersOnChain = {}

EndsInMd(name) == Len(name) >= 1 /\ name[Len(name)] = ".md"

\* C14 as stated: activate copies <source-dir>/<name>.md (appending .md only when the
\* name does not already end in it) into the resolved directory under the same file
\* name; if the source file is missing, the scope is invalid, or project scope finds no
\* marker, it fails and the filesystem is left unchanged (no directory created, no file
\* copied), the missing-source check taking precedence over the scope checks.
C14_ActivateCopiesOrLeavesUnchanged ==
    Activated =>
        IF ActivateMustFail
        THEN /\ outcome.exit # 0
             /\ ~outcome.mkdir /\ ~outcome.written
             /\ args.source = "missing" => outcome.error = "SourceMissing"
        ELSE /\ outcome.exit = 0 /\ outcome.written
             /\ outcome.text = args.content
             /\ outcome.name = (IF EndsInMd(args.name) THEN args.name
                                ELSE args.name \o <<".md">>)
             /\ outcome.dir = (IF args.scope = "user" THEN HomeDir
                               ELSE ProjectDir(SetMax(MarkersOnChain)))

\* create-command ran for a name whose command file already exists
ExistingTarget == Creating /\ args.exists

\* the overwrite question was reached
OverwriteAsked ==
    /\ ExistingTarget /\ NameAccepted(args.name)
    /\ args.scope \in {"user", "project"} /\ args.mkdir_ok

\* the answer is y or Y, whitespace around it aside
SaidYes == Strip(args.ans.overwrite) \in {<<"y">>, <<"Y">>}

\* C15 (as amended).  create-command never overwrites an existing command file without
\* confirmation: the existing file is written only if the overwrite prompt was answered
\* y in either letter case (whitespace around it ignored); on any other answer the run
\* is cancelled with failure after that one question, before any field is gathered,
\* and the file is unchanged.
C15_OverwriteOnlyWhenConfirmed ==
    /\ ExistingTarget => (outcome.written => SaidYes)
    /\ (OverwriteAsked /\ ~SaidYes) =>
          /\ outcome.exit # 0 /\ outcome.error = "Cancelled"
          /\ outcome.prompts = 1
          /\ ~outcome.written

\* C15, witness: the existing file is overwritten on the answer Y
C15_OverwrittenOnCapitalY ==
    /\ OverwriteAsked /\ args.ans.overwrite = <<"Y">>
    /\ outcome.written /\ outcome.exit = 0

\* C15 as stated: the existing file's content changes only if the overwrite prompt was
\* answered `y`; on any other answer the run is cancelled and the file is unchanged.
C15_OverwriteOnlyOnLowercaseY ==
    /\ ExistingTarget => (outcome.written => args.ans.overwrite = <<"y">>)
    /\ (OverwriteAsked /\ args.ans.overwrite # <<"y">>) =>
          outcome.error = "Cancelled" /\ ~outcome.written

\* the strict agent validator got as far as its body checks and returned
BodyChecked ==
    /\ pc = "done" /\ tool = "validate_skogix_agent" /\ file.state = "ok"
    /\ Returned
    /\ "MissingFrontmatter" \notin Ids(errors) /\ "InvalidYaml" \notin Ids(errors)

\* some piece of the text, letter case aside, is one of the words
NamesAny(text, words) == \E k \in 1..Len(text) : Lower(text[k]) \in words

CheckedBody == StrictFrontmatter(file.content).body

\* C16 as stated: the workflow check and the quality-standards check match
\* case-insensitively: the missing-workflow warning is added iff the body holds none of
\* workflow / method / steps in any letter case, and the missing-quality warning iff it
\* holds none of quality / checklist / guidelines in any letter case.
C16_WorkflowAndQualityAnyCase ==
    BodyChecked =>
        /\ ("MissingWorkflow" \in Ids(warnings))
              <=> ~NamesAny(CheckedBody, {"workflow", "method", "steps"})
        /\ ("MissingQuality" \in Ids(warnings))
              <=> ~NamesAny(CheckedBody, {"quality", "checklist", "guidelines"})

\* the line-scanning validator found the frontmatter and returned
FieldsChecked ==
    /\ pc = "done" /\ tool = "validate_agent" /\ file.state = "ok"
    /\ Returned /\ top = NoTop

HeaderLines == FmLines(LenientFrontmatter(file.content).fm)

\* the lines of the header that give the model field
ModelLines == {n \in 1..Len(HeaderLines) : MatchAt(HeaderLines[n], <<"model", ":">>, 1)}

ModelGiven(n) == Strip(Slice(HeaderLines[n], 3, Len(HeaderLines[n])))

IsModelName(value) == Len(value) = 1 /\ value[1] \in {"sonnet", "opus", "haiku", "inherit"}

\* C17 as stated: when the frontmatter has a model field whose value is not one of
\* sonnet, opus, haiku, inherit (values that merely start with one of them included),
\* agent validation reports the value as invalid; when the value is one of the four,
\* nothing is reported about model.
C17_UnknownModelReported ==
    (FieldsChecked /\ ModelLines # {}) =>
        ("UnknownModel" \in Ids(errors) \cup Ids(warnings))
            <=> (\E n \in ModelLines : ~IsModelName(ModelGiven(n)))

ValidatedAgain == pc = "again" /\ tool \in Validators

FindingSet(findings) == {findings[k] : k \in 1..Len(findings)}

\* the checks in another order: rotated by r places, and reversed or not
Reordered(checks, r, reversed) ==
    [k \in 1..Len(checks) |->
        checks[IF reversed THEN Len(checks) + 1 - (((k - 1 + r) % Len(checks)) + 1)
               ELSE ((k - 1 + r) % Len(checks)) + 1]]

SameFindingSets(a, b) ==
    /\ FindingSet(a.e) = FindingSet(b.e)
    /\ FindingSet(a.w) = FindingSet(b.w)
    /\ FindingSet(a.i) = FindingSet(b.i)

\* the seven checks of the command validator all ran on the file
AllChecksRan ==
    /\ tool = "validate_command" /\ pc = "again"
    /\ file.state = "ok" /\ file.suffix = ".md"

CommandRoundTrip ==
    /\ pc = "done" /\ tool = "validate_command"
    /\ outcome.written
    /\ IsKebabCase(args.name)

\* the text ends with the words `## Process`
EndsInProcessHeading(value) ==
    Len(value) >= 4 /\ SubSeq(value, Len(value) - 3, Len(value)) = <<"#", "#", " ", "Process">>

\* the info finding for a Process section of 3 to 10 steps is there
StepsClassifiedOk ==
    \E k \in 1..Len(info) :
        /\ info[k].id = "StepsOk"
        /\ info[k].args[1] >= 3 /\ info[k].args[1] <= 10

AgentRoundTrip ==
    /\ pc = "done" /\ tool = "validate_skogix_agent"
    /\ outcome.written

\* C20 as stated: for every agent name and every set of prompted field values (a
\* description containing a colon, a purely numeric name and empty answers included)
\* the file written by create-agent is accepted by the strict agent validator with zero
\* errors: its frontmatter is found and parsed and name and description are strings.
C20_CreatedAgentValidates ==
    AgentRoundTrip => (verdict = "pass" /\ errors = <<>>)

\* the line-scanning validator found a frontmatter block in the file
HeaderFound ==
    /\ pc = "done" /\ tool = "validate_agent" /\ file.state = "ok"
    /\ LenientFrontmatter(file.content).found

\* the index of the newline that ends the closing `---` line of the block
ClosingLineEnd(content) ==
    CloseEnd(content, SetMin(ClosesFrom(content, SetMax(Heads(content)) + 1)))

\* the text that follows the closing `---` line
TextAfterHeader(content) == Slice(content, ClosingLineEnd(content) + 1, Len(content))

\* C21 as stated: the line-scanning agent validator records the error "No content after
\* frontmatter" if and only if the text following the closing `---` line of the
\* frontmatter block is empty or whitespace only, whichever optional fields (tools,
\* model, color) the frontmatter holds.
C21_NoContentIffNothingFollows ==
    HeaderFound =>
        (("NoContent" \in Ids(errors)) <=> (Strip(TextAfterHeader(file.content)) = <<>>))

====
